---- MODULE Spec2Model ----
(***************************************************************************)
(* Model of the PvP achievement sync runner (src/sync_pvp.py): the durable *)
(* record store with its seed / upsert / shard-merge operations, the       *)
(* identity clustering and root election, the batch windowing, the retry   *)
(* sweep loop and the token-bucket rate limiter.                           *)
(*                                                                         *)
(* The runner is a collection of short-lived processes that share the      *)
(* store; each part of it is explored by its own specification over the    *)
(* shared variables (Spec, SpecMerge, SpecCluster, ...), the variables of  *)
(* the other parts staying at their initial value.                         *)
(***************************************************************************)
EXTENDS Integers, Sequences, FiniteSets, TLC

\* ------------------------------------------------------------------ bounds
\* number of achievement IDs in the store specifications
MaxAch == 2
\* largest completion timestamp
MaxTs == 2
\* number of achievement IDs in the clustering specification
MaxClusterAch == 6

\* ------------------------------------------------------------- data model
\* An optional timestamp: None is JSON null, Some(t) a unix epoch.
None == << >>
Some(t) == << t >>
IsNone(ts) == ts = None
TsVal(ts) == ts[1]

\* Identity keys are strings; a key is modelled as its sequence of
\* character codes and compared lexicographically, as Python compares str.
Keys == { <<1>>, <<1, 2>>, <<2>> }
AchIds == 1 .. MaxAch
TsVals == 1 .. MaxTs
OptTs == { None } \cup { Some(t) : t \in TsVals }

\* the vendor-assigned numeric id of a character (never 0)
GuidOf(k) == 10 * k[1] + Len(k)

VARIABLES
  db,      \* char_data of the working store: key -> [guid, ach]
  pre,     \* char_data before the last store operation
  shards,  \* exported shard stores: shard id -> char_data
  lua,     \* published region output: root key -> [guid, alts, ach]
  run,     \* the runner process in progress: "idle" or "batch"
  op       \* the last store operation, <<name, argument>>

VARIABLES
  leaderboard_keys,  \* identities found on the live leaderboards
  phase,             \* position of the post-process in process_characters
  fingerprints,      \* key -> set of tokens (aid, ts)
  alt_map,           \* key -> list of linked keys
  groups,            \* list of clusters, each a sorted list of keys
  elected            \* list of [root, alts] in the order of groups

VARIABLES
  all_keys,    \* sorted(chars): the key list of this invocation
  batch_size,  \* int(os.getenv("BATCH_SIZE"))
  windows,     \* batch id -> keys processed by the run with that batch id
  last,        \* the last batch-mode invocation: its arguments and its slice
  again        \* << earlier slice, new slice >> of a repeated invocation

VARIABLES
  spc,                 \* position of process_characters in a batch run
  characters,          \* the working set handed to process_characters
  remaining,           \* the list swept by the current pass
  tasks,               \* identities of the current sub-batch still in flight
  batch_i,             \* index of the current sub-batch
  retry_bucket,        \* identities to retry, in insertion order
  SWITCHED_TO_429,     \* the fallback credentials have been switched to
  CRED_SUFFIX_USED,    \* suffix of the credentials in use
  CRED_SUFFIX_FORCE,   \* --cred_suffix ("" when not given)
  headers_seen_suffix, \* suffix the bearer token in use was acquired with
  RETRY_AFTER_HINT,    \* largest Retry-After seen since the last wait
  wait_for,            \* length of the last wait between sweeps
  sweeps,              \* completed sweeps that re-queued a retry bucket
  limited,             \* identities every fetch of which was RateLimited
  pass_log,            \* this pass: identity -> what its fetches ended in
  prev_log,            \* pass_log of the pass before this one
  completed,           \* the counter "completed" of the sweep loop
  settled,             \* identities a fetch of which was not RateLimited
  hints_seen,          \* Retry-After of every 429 since the hint was last reset
  fatal                \* the exception that reached the top level, or "none"

VARIABLES
  now,        \* time.monotonic(), in ticks
  tokens,     \* RateLimiter.tokens, in 1/TicksPerToken of a token
  timestamp,  \* RateLimiter.timestamp
  calls,      \* RateLimiter.calls
  lockq,      \* callers queued on RateLimiter._lock, first in first out
  holder,     \* the caller inside acquire(), 0 when the lock is free
  wakeAt,     \* end of the sleep of the caller inside acquire()
  since,      \* how the current run of back-to-back acquires began
  waits,      \* the sleep asked for by each acquire of that run
  inside,     \* callers between the read and the write of the bucket state
  returns     \* the times at which the calls of acquire() returned, all of them

VARIABLES
  entry_lines,    \* the entry lines of the export, each << entry, bytes >>
  MAX_BYTES,      \* int(os.getenv("MAX_LUA_PART_SIZE", ...))
  epc,            \* position of the export in its chunk loop
  pos,            \* index of the next line of "for line in entry_lines"
  part_index,     \* number of the part being filled
  current_lines,  \* lines of the part being filled
  out_files,      \* names of the files written by this export, in order
  disk,           \* region files on disk: 0 (region_xx.lua) or n (part n) -> lines
  old_disk        \* the region files before the export began

VARIABLES
  committed,    \* char_data as of the last db.commit() of a batch run
  partial,      \* keys of the partial output written by a batch run
  exit_status,  \* exit status of the last finalize merge or sweep run, -1 before
  merged        \* return value of the last merge_one_shard

VARIABLES
  ser,       \* position of the row on its way from db_upsert to its entry line
  ach_arg,   \* the ach dict handed to db_upsert: achievement id (int) -> name
  ach_json,  \* the stored ach_json text: member name (str) -> name
  parts      \* the (idN, nameN) pairs of the entry line, in order

VARIABLES
  fpc,        \* position of fetch_with_rate_limit in the call in progress
  url,        \* the URL of the call: "index" (cacheable) or "character"
  url_cache,  \* the URLs url_cache holds a response for
  attempt,    \* the loop variable of "for attempt in range(1, max_retries + 1)"
  responses,  \* what each request of this call ended in, in order
  backoff,    \* the sleeps of this call after a timeout, in order
  requests,   \* requests sent (session.get) over all calls
  acq_sec,    \* completed per_sec.acquire() over all calls
  acq_hour,   \* completed per_hour.acquire() over all calls
  result,     \* how the last call ended: data, "cached" or the exception
  ncalls      \* calls of fetch_with_rate_limit so far

\* the semaphore of process_characters
VARIABLES
  fetching,   \* the tasks that hold the semaphore ("async with sem")
  answers     \* what the API answers to the fetches of each identity, in order

storeVars == << db, pre, shards, lua, run, op >>
clusterVars == << leaderboard_keys, phase, fingerprints, alt_map, groups, elected >>
batchVars == << all_keys, batch_size, windows, last, again >>
sweepVars ==
  << spc, characters, remaining, tasks, batch_i, retry_bucket, SWITCHED_TO_429,
     CRED_SUFFIX_USED, CRED_SUFFIX_FORCE, headers_seen_suffix, RETRY_AFTER_HINT,
     wait_for, sweeps, limited, fatal, pass_log, prev_log, completed, settled,
     hints_seen >>
logVars == << pass_log, prev_log, completed, settled >>
limiterVars ==
  << now, tokens, timestamp, calls, lockq, holder, wakeAt, since, waits, inside, returns >>
exportVars ==
  << entry_lines, MAX_BYTES, epc, pos, part_index, current_lines, out_files, disk, old_disk >>
procVars == << committed, partial, exit_status, merged >>
entryVars == << ser, ach_arg, ach_json, parts >>
fetchVars ==
  << fpc, url, url_cache, attempt, responses, backoff, requests, acq_sec, acq_hour,
     result, ncalls >>
semVars == << fetching, answers >>
auxVars == << entryVars, fetchVars, semVars >>
moreVars == << exportVars, procVars, auxVars >>
restVars == << batchVars, sweepVars, limiterVars, moreVars >>
vars == << storeVars, clusterVars, restVars >>

\* ------------------------------------------------- durable record store
EmptyStore == << >>
ShardIds == { 1, 2 }

\* an upsert that keeps the entries of the row it replaces
db_upsert_keep(d, key, guid, ach) ==
  [k \in DOMAIN d \cup { key } |->
     IF k # key THEN d[k]
     ELSE [guid |-> guid,
           ach |-> IF key \notin DOMAIN d THEN ach
                   ELSE [a \in DOMAIN d[key].ach \cup DOMAIN ach |->
                           IF a \in DOMAIN ach THEN ach[a] ELSE d[key].ach[a]]]]

\* db_upsert: INSERT OR REPLACE of the whole row
\* an upsert that replaces the table by the one row
db_upsert_only(d, key, guid, ach) ==
  [k \in { key } |-> [guid |-> guid, ach |-> ach]]

db_upsert(d, key, guid, ach) ==
  [k \in DOMAIN d \cup { key } |->
     IF k = key THEN [guid |-> guid, ach |-> ach] ELSE d[k]]

\* a store whose every upsert is durable at once
RollbackKeepsUpserts(d, c) == d
\* the store file after the process ended without db.commit(): db_upsert
\* runs inside the implicit transaction of the connection, which is dropped
\* when the connection goes away; c is the content at the last commit
Rollback(d, c) == c

\* the per-ID decision of _merge_ach_json, for an ID present on both sides
MergeEntryTakeNew(info_old, info_new) == info_new
\* a merge that keeps the name and forgets the timestamp, as seeding does
MergeEntryNullTs(info_old, info_new) == [name |-> info_new.name, ts |-> None]
\* a merge that prefers the earlier of two timestamps
MergeEntryEarlier(info_old, info_new) ==
  IF IsNone(info_old.ts) THEN info_new
  ELSE IF IsNone(info_new.ts) THEN info_old
  ELSE IF TsVal(info_new.ts) <= TsVal(info_old.ts) THEN info_new
  ELSE info_old
\* a merge that keeps the existing entry whenever it has a timestamp
MergeEntryKeepOld(info_old, info_new) ==
  IF IsNone(info_old.ts) THEN info_new ELSE info_old
MergeEntry(info_old, info_new) ==
  IF IsNone(info_old.ts) /\ ~IsNone(info_new.ts) THEN info_new
  ELSE IF IsNone(info_new.ts) /\ ~IsNone(info_old.ts) THEN info_old
  ELSE IF IsNone(info_old.ts) /\ IsNone(info_new.ts) THEN info_old
  ELSE IF TsVal(info_new.ts) >= TsVal(info_old.ts) THEN info_new
  ELSE info_old

\* _merge_ach_json: start from existing, layer incoming on top
merge_ach_json(existing, incoming) ==
  [a \in DOMAIN existing \cup DOMAIN incoming |->
     IF a \notin DOMAIN incoming THEN existing[a]
     ELSE IF a \notin DOMAIN existing THEN incoming[a]
     ELSE MergeEntry(existing[a], incoming[a])]

\* merge_one_shard, one row (k, g, j) of the shard
MergeRow(d, k, g, j) ==
  IF k \notin DOMAIN d
  THEN [guid |-> g, ach |-> j]
  ELSE [guid |-> IF d[k].guid # 0 THEN d[k].guid ELSE g,
        ach  |-> merge_ach_json(d[k].ach, j)]

\* merge_one_shard, all rows of the shard (keys are unique in a shard)
merge_one_shard(d, s) ==
  [k \in DOMAIN d \cup DOMAIN s |->
     IF k \in DOMAIN s THEN MergeRow(d, k, s[k].guid, s[k].ach) ELSE d[k]]

\* finalize with ONE_SHARD set: merge exactly one shard file, then
\* db.close() and sys.exit(0)
MergeOneShard(s) ==
  /\ run = "idle"
  /\ s \in DOMAIN shards
  /\ pre' = db
  /\ db' = merge_one_shard(db, shards[s])
  /\ op' = << "merge", s >>
  /\ merged' = Cardinality(DOMAIN shards[s])
  /\ exit_status' = 0
  /\ UNCHANGED << shards, lua, run, clusterVars, batchVars, sweepVars, limiterVars >>
  /\ UNCHANGED << exportVars, auxVars, committed, partial >>

\* ---------------------------------------------------- identity clustering
THRESH == 5
MAX_BUCKET == 1000

\* str < str of Python: lexicographic on the character codes
RECURSIVE LexLess(_, _)
LexLess(a, b) ==
  IF a = << >> THEN b # << >>
  ELSE IF b = << >> THEN FALSE
  ELSE IF Head(a) # Head(b) THEN Head(a) < Head(b)
  ELSE LexLess(Tail(a), Tail(b))

LexMin(S) == CHOOSE x \in S : \A y \in S \ { x } : LexLess(x, y)

\* sorted(S) for a set of keys
RECURSIVE Sorted(_)
Sorted(S) ==
  IF S = {} THEN << >>
  ELSE LET m == LexMin(S) IN << m >> \o Sorted(S \ { m })

Range(q) == { q[i] : i \in DOMAIN q }
Perms(S) == { q \in [ 1 .. Cardinality(S) -> S ] : Range(q) = S }

\* (aid, info.get("ts") or 0): the token of one stored entry
Token(aid, info) == << aid, IF IsNone(info.ts) THEN 0 ELSE TsVal(info.ts) >>

\* fingerprints = {k: {(aid, ts or 0) ...} for every row}
Fingerprints(d) ==
  [k \in DOMAIN d |-> { Token(a, d[k].ach[a]) : a \in DOMAIN d[k].ach }]

\* bucket[t]: the keys holding token t
Bucket(fp, t) == { k \in DOMAIN fp : t \in fp[k] }

\* pair_counts[(a, b)]: tokens of both whose bucket is not above MAX_BUCKET
PairCount(fp, a, b) ==
  Cardinality({ t \in fp[a] \cap fp[b] : Cardinality(Bucket(fp, t)) <= MAX_BUCKET })

\* cnt >= THRESH: the pair is linked
Linked(fp, a, b) == a # b /\ PairCount(fp, a, b) >= THRESH
Neighbours(fp, a) == { b \in DOMAIN fp : Linked(fp, a, b) }

\* a traversal that stops at the direct neighbours of the start key
DfsDirectOnly(am, stack, visited, comp) ==
  LET u == stack[1]
      near == SelectSeq(am[u], LAMBDA v : v \notin visited) IN
  [visited |-> visited \cup { u } \cup Range(near), comp |-> << u >> \o near]

\* while stack: u = stack.pop(); ... ; returns [visited, comp]
RECURSIVE Dfs(_, _, _, _)
Dfs(am, stack, visited, comp) ==
  IF stack = << >> THEN [visited |-> visited, comp |-> comp]
  ELSE LET u == stack[Len(stack)]
           rest == SubSeq(stack, 1, Len(stack) - 1) IN
       IF u \in visited THEN Dfs(am, rest, visited, comp)
       ELSE LET seen == visited \cup { u } IN
            Dfs(am,
                rest \o SelectSeq(am[u], LAMBDA v : v \notin seen),
                seen,
                Append(comp, u))

\* components kept in the order of the traversal, without sorted(comp)
RECURSIVE ComponentsUnsorted(_, _, _)
ComponentsUnsorted(am, todo, visited) ==
  IF todo = << >> THEN << >>
  ELSE IF Head(todo) \in visited THEN ComponentsUnsorted(am, Tail(todo), visited)
  ELSE LET r == Dfs(am, << Head(todo) >>, visited, << >>) IN
       << r.comp >> \o ComponentsUnsorted(am, Tail(todo), r.visited)

\* for k in sorted(alt_map): ... groups.append(sorted(comp))
RECURSIVE Components(_, _, _)
Components(am, todo, visited) ==
  IF todo = << >> THEN << >>
  ELSE IF Head(todo) \in visited THEN Components(am, Tail(todo), visited)
  ELSE LET r == Dfs(am, << Head(todo) >>, visited, << >>) IN
       << Sorted(Range(r.comp)) >> \o Components(am, Tail(todo), r.visited)

ConnectedComponents(am) == Components(am, Sorted(DOMAIN am), {})

\* An election that ignores the leaderboard set.
RootFirstMember(comp, lb) == comp[1]
\* root = real_leaders[0] if real_leaders else comp[0]
Root(comp, lb) ==
  LET real_leaders == SelectSeq(comp, LAMBDA m : m \in lb) IN
  IF real_leaders # << >> THEN real_leaders[1] ELSE comp[1]
\* an alts list that keeps every member of the cluster
AltsAll(comp, root) == comp
\* alts = [m for m in comp if m != root]
Alts(comp, root) == SelectSeq(comp, LAMBDA m : m # root)

\* guid, ach_map = rows_map[root]; the entry of one cluster: character,
\* alts, guid and the (id, name) pairs of the root's row
EntryOf(comp, lb, d) ==
  LET root == Root(comp, lb) IN
  [root |-> root,
   alts |-> Alts(comp, root),
   guid |-> d[root].guid,
   ach  |-> [a \in DOMAIN d[root].ach |-> d[root].ach[a].name]]

ClusterIdle ==
  /\ leaderboard_keys = {}
  /\ phase = "idle"
  /\ fingerprints = << >>
  /\ alt_map = << >>
  /\ groups = << >>
  /\ elected = << >>

\* The parts of the runner that a specification does not exercise stay at
\* the values below.
StoreIdle ==
  /\ db = EmptyStore
  /\ pre = EmptyStore
  /\ shards = EmptyStore
  /\ lua = EmptyStore
  /\ run = "idle"
  /\ op = << "init", 0 >>

NoRun == [ran |-> FALSE, batch_id |-> 0, offset |-> 0, limit |-> None, processed |-> << >>]

BatchIdle ==
  /\ all_keys = << >>
  /\ batch_size = 1
  /\ windows = << >>
  /\ last = NoRun
  /\ again = << >>

SweepIdle ==
  /\ spc = "idle"
  /\ characters = << >>
  /\ remaining = << >>
  /\ tasks = {}
  /\ batch_i = 0
  /\ retry_bucket = << >>
  /\ SWITCHED_TO_429 = FALSE
  /\ CRED_SUFFIX_USED = "_1"
  /\ CRED_SUFFIX_FORCE = ""
  /\ headers_seen_suffix = "_1"
  /\ RETRY_AFTER_HINT = 0
  /\ wait_for = 0
  /\ sweeps = 0
  /\ limited = {}
  /\ fatal = "none"
  /\ pass_log = << >>
  /\ prev_log = << >>
  /\ completed = 0
  /\ settled = {}
  /\ hints_seen = {}

LimiterIdle ==
  /\ now = 0
  /\ tokens = 0
  /\ timestamp = 0
  /\ calls = << >>
  /\ lockq = << >>
  /\ holder = 0
  /\ wakeAt = 0
  /\ since = "fresh"
  /\ waits = << >>
  /\ inside = {}
  /\ returns = << >>

ExportIdle ==
  /\ entry_lines = << >>
  /\ MAX_BYTES = 0
  /\ epc = "idle"
  /\ pos = 1
  /\ part_index = 1
  /\ current_lines = << >>
  /\ out_files = << >>
  /\ disk = << >>
  /\ old_disk = << >>

ProcIdle ==
  /\ committed = EmptyStore
  /\ partial = {}
  /\ exit_status = -1
  /\ merged = 0

EntryIdle ==
  /\ ser = "idle"
  /\ ach_arg = << >>
  /\ ach_json = << >>
  /\ parts = << >>

FetchIdle ==
  /\ fpc = "idle"
  /\ url = ""
  /\ url_cache = {}
  /\ attempt = 0
  /\ responses = << >>
  /\ backoff = << >>
  /\ requests = 0
  /\ acq_sec = 0
  /\ acq_hour = 0
  /\ result = "none"
  /\ ncalls = 0

SemIdle == fetching = {} /\ answers = << >>

AuxIdle == EntryIdle /\ FetchIdle /\ SemIdle

MoreIdle == ExportIdle /\ ProcIdle /\ AuxIdle

RestIdle == BatchIdle /\ SweepIdle /\ LimiterIdle /\ MoreIdle

\* process_characters, "build fingerprints"
BuildFingerprints ==
  /\ phase = "start"
  /\ fingerprints' = Fingerprints(db)
  /\ phase' = "fingerprints"
  /\ UNCHANGED << leaderboard_keys, alt_map, groups, elected, storeVars, restVars >>

\* for (a, b), cnt in pair_counts.items(): alt_map[a].append(b); alt_map[b].append(a)
RECURSIVE AppendPairs(_, _)
AppendPairs(am, pairs) ==
  IF pairs = << >> THEN am
  ELSE LET a == Head(pairs)[1]
           b == Head(pairs)[2] IN
       AppendPairs([k \in DOMAIN am |->
                      IF k = a THEN Append(am[k], b)
                      ELSE IF k = b THEN Append(am[k], a)
                      ELSE am[k]],
                   Tail(pairs))

\* the pairs (a, b), a < b, whose count reaches THRESH
LinkedPairs(fp) ==
  { p \in (DOMAIN fp) \X (DOMAIN fp) : LexLess(p[1], p[2]) /\ Linked(fp, p[1], p[2]) }

\* process_characters, bucket / pair_counts / alt_map. pair_counts is
\* filled in the iteration order of the token sets, which is not fixed: the
\* linked pairs are visited in any order.
BuildAltMap ==
  /\ phase = "fingerprints"
  /\ LET pairs == LinkedPairs(fingerprints) IN
     \E order \in Perms(pairs) :
       alt_map' = AppendPairs([k \in DOMAIN fingerprints |-> << >>], order)
  /\ phase' = "alt_map"
  /\ UNCHANGED << leaderboard_keys, fingerprints, groups, elected, storeVars, restVars >>

\* process_characters, "connected components"
BuildGroups ==
  /\ phase = "alt_map"
  /\ groups' = ConnectedComponents(alt_map)
  /\ phase' = "groups"
  /\ UNCHANGED << leaderboard_keys, fingerprints, alt_map, elected, storeVars, restVars >>

\* process_characters, export branch: root and alts of every cluster
ElectRoots ==
  /\ phase = "groups"
  /\ elected' = [i \in DOMAIN groups |-> EntryOf(groups[i], leaderboard_keys, db)]
  /\ phase' = "elected"
  /\ UNCHANGED << leaderboard_keys, fingerprints, alt_map, groups, storeVars, restVars >>

\* ------------------------------------- SpecCluster: the post-process
\* Stores of the clustering specification. A snapshot holds a run T of
\* consecutive IDs with timestamp t; the other IDs are absent or stored with
\* a null timestamp (as seeded rows are).
ClusterAchIds == 1 .. MaxClusterAch
Snap(T, t, nulls) ==
  [a \in (IF nulls THEN ClusterAchIds ELSE T) |->
     [name |-> "n", ts |-> IF a \in T THEN Some(t) ELSE None]]
Runs ==
  { lo .. hi : lo \in ClusterAchIds, hi \in ClusterAchIds } \cap
  { T \in SUBSET ClusterAchIds : T = {} \/ Cardinality(T) >= THRESH - 1 }
ClusterSnaps ==
  { Snap(T, 1, n) : T \in Runs, n \in BOOLEAN } \cup { Snap(ClusterAchIds, 2, FALSE) }

InitCluster ==
  /\ RestIdle
  /\ db \in { [k \in Keys |-> [guid |-> GuidOf(k), ach |-> f[k]]] : f \in [ Keys -> ClusterSnaps ] }
  /\ pre = db
  /\ shards = EmptyStore
  /\ lua = EmptyStore
  /\ run = "idle"
  /\ op = << "init", 0 >>
  /\ leaderboard_keys \in SUBSET Keys
  /\ phase = "start"
  /\ fingerprints = << >>
  /\ alt_map = << >>
  /\ groups = << >>
  /\ elected = << >>

NextCluster ==
  \/ BuildFingerprints
  \/ BuildAltMap
  \/ BuildGroups
  \/ ElectRoots

SpecCluster == InitCluster /\ [][NextCluster]_vars

Edge(a, b) == b \in Range(alt_map[a])
SharedIds(a, b) == DOMAIN db[a].ach \cap DOMAIN db[b].ach
OnlyNullShared(a, b) ==
  \A i \in SharedIds(a, b) : IsNone(db[a].ach[i].ts) /\ IsNone(db[b].ach[i].ts)

\* C3: fingerprint exclusion. A null timestamp contributes nothing to a
\* fingerprint, so two identities whose only shared achievement IDs have
\* null timestamps share no token and are never linked by an edge, however
\* many such IDs they share.
C3_NullNeverLinks ==
  phase \in { "alt_map", "groups", "elected" } =>
    \A a \in DOMAIN db : \A b \in DOMAIN db \ { a } :
      OnlyNullShared(a, b) =>
        /\ fingerprints[a] \cap fingerprints[b] = {}
        /\ ~Edge(a, b)

\* the fingerprint of a row: its (ID, timestamp) pairs with a known timestamp
KnownTokens(k) ==
  { << a, TsVal(db[k].ach[a].ts) >> : a \in { x \in DOMAIN db[k].ach : ~IsNone(db[k].ach[x].ts) } }

\* the fingerprint tokens of both a and b that at least 2 and at most
\* MAX_BUCKET identities hold
CountedTokens(a, b) ==
  { t \in KnownTokens(a) \cap KnownTokens(b) :
      LET n == Cardinality({ k \in DOMAIN db : t \in KnownTokens(k) }) IN
      n >= 2 /\ n <= MAX_BUCKET }

\* C34: two distinct identities are joined by an edge iff they hold at
\* least THRESH (5) counted fingerprint tokens in common; the edge relation
\* is symmetric and no identity has an edge to itself.
C34_EdgeIffThreshold ==
  phase \in { "alt_map", "groups", "elected" } =>
    \A a \in DOMAIN db : \A b \in DOMAIN db :
      /\ a # b => (Edge(a, b) <=> Cardinality(CountedTokens(a, b)) >= THRESH)
      /\ Edge(a, b) => Edge(b, a)
      /\ ~Edge(a, a)

\* the keys joined to a by a path of edges
RECURSIVE Reach(_)
Reach(S) ==
  LET N == S \cup { b \in DOMAIN alt_map : \E a \in S : Edge(a, b) } IN
  IF N = S THEN S ELSE Reach(N)
GroupsOfKey(k) == { i \in DOMAIN groups : k \in Range(groups[i]) }

\* C4: the clusters are exactly the connected components of the edge graph
\* over all keys of the store: every key is in exactly one cluster, once,
\* and two keys share a cluster iff a path of edges joins them.
C4_ClustersAreComponents ==
  phase \in { "groups", "elected" } =>
    /\ \A k \in DOMAIN db : Cardinality(GroupsOfKey(k)) = 1
    /\ \A i \in DOMAIN groups :
         /\ Range(groups[i]) \subseteq DOMAIN db
         /\ Len(groups[i]) = Cardinality(Range(groups[i]))
         /\ \A a \in Range(groups[i]) : Range(groups[i]) = Reach({ a })

\* A-B and B-C are linked, A-C is not, and the three share one cluster
C4_Witness ==
  /\ phase = "groups"
  /\ Edge(<<1>>, <<1, 2>>) /\ Edge(<<1, 2>>, <<2>>) /\ ~Edge(<<1>>, <<2>>)
  /\ groups = << << <<1>>, <<1, 2>>, <<2>> >> >>

\* C5: root election. The root of a cluster is its lexicographically first
\* member that is in the leaderboard-membership set, or its first member if
\* none is; the alts are the other members in lexicographic order.
C5_RootElection ==
  phase = "elected" =>
    /\ Len(elected) = Len(groups)
    /\ \A i \in DOMAIN groups :
         LET members == Range(groups[i])
             leaders == members \cap leaderboard_keys IN
         /\ elected[i].root = (IF leaders # {} THEN LexMin(leaders) ELSE LexMin(members))
         /\ elected[i].alts = Sorted(members \ { elected[i].root })

\* cluster {A, B, C} with membership {B}: root B, alts [A, C]
C5_Witness ==
  /\ phase = "elected"
  /\ leaderboard_keys = { <<1, 2>> }
  /\ groups = << << <<1>>, <<1, 2>>, <<2>> >> >>
  /\ Len(elected) = 1
  /\ elected[1].root = <<1, 2>>
  /\ elected[1].alts = << <<1>>, <<2>> >>

\* the alt_map lists that the visiting orders of rows and tokens can give
\* for the store
AltMapsOf(d) ==
  LET fp == Fingerprints(d) IN
  { AppendPairs([k \in DOMAIN fp |-> << >>], order) : order \in Perms(LinkedPairs(fp)) }
ElectedOf(gs, lb) == [i \in DOMAIN gs |-> EntryOf(gs[i], lb, db)]

\* C14: clustering determinism. For a fixed store, threshold and
\* leaderboard-membership set, a run of the clustering under any other
\* visiting order of rows and tokens gives the same list of clusters, the
\* same root for every cluster and the same alts in the same order.
C14_ClusteringDeterministic ==
  phase = "elected" =>
    \A am \in AltMapsOf(db) :
      /\ ConnectedComponents(am) = groups
      /\ ElectedOf(ConnectedComponents(am), leaderboard_keys) = elected

\* three keys in one cluster, the first linked to both others, so that the
\* visiting order decides the order of its alt_map list and of the traversal
C14_Witness ==
  /\ phase = "elected"
  /\ Cardinality(AltMapsOf(db)) >= 2
  /\ Len(groups) = 1 /\ Len(groups[1]) = 3
  /\ Len(alt_map[groups[1][1]]) = 2
  /\ leaderboard_keys # {}

\* the places where key k stands in the entries: as the character of entry
\* i (position 0) or at position j of the alts of entry i
PlacesOf(k) ==
  { << i, 0 >> : i \in { j \in DOMAIN elected : elected[j].root = k } }
  \cup
  { p \in (DOMAIN elected) \X (1 .. Cardinality(DOMAIN db)) :
      p[2] \in DOMAIN elected[p[1]].alts /\ elected[p[1]].alts[p[2]] = k }

\* C20: in the entries of an export there is exactly one entry per cluster,
\* every key of the store stands in exactly one place (the character of one
\* entry or one position of one alts list), and the guid and the
\* (id, name) pairs of an entry are those stored for its root.
C20_OneEntryPerCluster ==
  phase = "elected" =>
    /\ Len(elected) = Len(groups)
    /\ \A i \in DOMAIN elected :
         /\ { elected[i].root } \cup Range(elected[i].alts) = Range(groups[i])
         /\ elected[i].guid = db[elected[i].root].guid
         /\ DOMAIN elected[i].ach = DOMAIN db[elected[i].root].ach
         /\ \A a \in DOMAIN elected[i].ach :
              elected[i].ach[a] = db[elected[i].root].ach[a].name
    /\ \A k \in DOMAIN db : Cardinality(PlacesOf(k)) = 1

\* two clusters, one of two members whose root is not its first member, and
\* rows that differ in their achievements
C20_Witness ==
  /\ phase = "elected"
  /\ Len(elected) = 2
  /\ \E i \in DOMAIN elected :
       /\ Len(elected[i].alts) = 1
       /\ elected[i].root # groups[i][1]
       /\ DOMAIN db[elected[i].root].ach # DOMAIN db[elected[i].alts[1]].ach

\* ------------------------------------------ Spec: the store across runs
\* seed_db_from_lua_paths: every entry of the published output is upserted
\* with its guid and its (id, name) pairs, each with "ts": None
SeedRow(e) ==
  [guid |-> e.guid, ach |-> [a \in DOMAIN e.ach |-> [name |-> e.ach[a], ts |-> None]]]
seed_db_from_lua_paths(d, l) ==
  [k \in DOMAIN d \cup DOMAIN l |-> IF k \in DOMAIN l THEN SeedRow(l[k]) ELSE d[k]]

\* old_chars: the rows returned by seed_db_from_lua_paths, key -> id
\* (alts of an entry get id 0 unless a row of their own is already there)
OldChars(l) ==
  LET alts == UNION { Range(l[k].alts) : k \in DOMAIN l } IN
  [k \in DOMAIN l \cup alts |-> IF k \in DOMAIN l THEN l[k].guid ELSE 0]

\* the entry lines of the export branch: one entry per cluster, keyed by
\* its root, with the root's guid and (id, name) pairs
Publish(d, am, lb) ==
  LET gs == ConnectedComponents(am)
      rootOf == [i \in DOMAIN gs |-> Root(gs[i], lb)] IN
  [r \in { rootOf[i] : i \in DOMAIN gs } |->
     LET i == CHOOSE j \in DOMAIN gs : rootOf[j] = r IN
     [guid |-> d[r].guid,
      alts |-> Alts(gs[i], r),
      ach  |-> [a \in DOMAIN d[r].ach |-> d[r].ach[a].name]]]

\* responses of the character-achievements endpoint after the filter to
\* the relevant IDs: a non-empty map; completed_timestamp may be missing.
\* One response carries one timestamp value on all its IDs.
Responses ==
  { [a \in S |-> [name |-> "n", ts |-> t]] : S \in (SUBSET AchIds) \ { {} }, t \in OptTs }

\* __main__ in batch mode up to the fetches: the store is seeded from the
\* published output (and committed), then the working set is discovered;
\* leaderboard_keys = set(api_chars), lb being the keys the leaderboards gave
StartBatch(lb) ==
  /\ run = "idle"
  /\ pre' = db
  /\ db' = seed_db_from_lua_paths(db, lua)
  /\ run' = "batch"
  /\ op' = << "seed", 0 >>
  /\ leaderboard_keys' = lb
  /\ UNCHANGED << phase, fingerprints, alt_map, groups, elected >>
  /\ UNCHANGED << shards, lua, restVars >>

\* proc_one, a fetch that matched relevant achievements: db_upsert(key, cid, ach_dict)
FetchStore(k, ach) ==
  /\ run = "batch"
  /\ LET chars == OldChars(lua)
         cid == IF k \in DOMAIN chars /\ k \notin leaderboard_keys THEN chars[k] ELSE GuidOf(k) IN
     db' = db_upsert(db, k, cid, ach)
  /\ pre' = db
  /\ op' = << "fetch", 0 >>
  /\ UNCHANGED << shards, lua, run, clusterVars, restVars >>

\* process_characters, end of a batch run: db.commit(), then the store is
\* copied to the shard of this batch
EndBatch(b) ==
  /\ run = "batch"
  /\ shards' = [s \in DOMAIN shards \cup { b } |-> IF s = b THEN db ELSE shards[s]]
  /\ run' = "idle"
  /\ pre' = db
  /\ op' = << "shard", b >>
  /\ UNCHANGED << db, lua, clusterVars, restVars >>

\* finalize with EXPORT_ONLY=1: process_characters({}, set()) clusters the
\* store and writes the region output
ExportOnly ==
  /\ run = "idle"
  /\ LET fp == Fingerprints(db) IN
     \E order \in Perms(LinkedPairs(fp)) :
       lua' = Publish(db, AppendPairs([k \in DOMAIN fp |-> << >>], order), {})
  /\ pre' = db
  /\ op' = << "export", 0 >>
  /\ UNCHANGED << db, shards, run, clusterVars, restVars >>

LifeKeys == { <<1>> }

Init ==
  /\ RestIdle
  /\ ClusterIdle
  /\ db = EmptyStore
  /\ pre = EmptyStore
  /\ shards = EmptyStore
  /\ lua = EmptyStore
  /\ run = "idle"
  /\ op = << "init", 0 >>

Next ==
  \/ \E lb \in SUBSET LifeKeys : StartBatch(lb)
  \/ \E k \in LifeKeys, ach \in Responses : FetchStore(k, ach)
  \/ EndBatch(1)
  \/ MergeOneShard(1)
  \/ ExportOnly

Spec == Init /\ [][Next]_vars

\* C2: seeding never clobbers live data. An entry that has a non-null
\* timestamp in the store before the seed step is in the store, with that
\* timestamp, after it.
C2_SeedKeepsTimestamps ==
  op[1] = "seed" =>
    \A k \in DOMAIN pre : \A a \in DOMAIN pre[k].ach :
      ~IsNone(pre[k].ach[a].ts) =>
        /\ k \in DOMAIN db
        /\ a \in DOMAIN db[k].ach
        /\ db[k].ach[a].ts = pre[k].ach[a].ts

\* ------------------------------ SpecCycle: a full cycle over one output
\* A cycle of the pipeline on a runner whose store starts empty: one batch
\* run over the window of all keys, the shard merge, the export. The
\* previous output holds a root with an alt (they shared THRESH tokens when
\* it was published), or two roots of their own.
CycleRoot == << 1 >>
CycleAlt == << 2 >>
CycleOutputs ==
  { [k \in { CycleRoot } |->
       [guid |-> GuidOf(k), alts |-> << CycleAlt >>, ach |-> [a \in 1 .. THRESH |-> "n"]]],
    [k \in { CycleRoot, CycleAlt } |->
       [guid |-> GuidOf(k), alts |-> << >>, ach |-> [a \in { 1 } |-> "n"]]] }

\* outcomes of one fetch: no data or no relevant achievement (None), or the
\* relevant achievements of the response
CycleOutcomes ==
  { None,
    Some([a \in 1 .. THRESH |-> [name |-> "n", ts |-> Some(1)]]),
    Some([a \in { 1 } |-> [name |-> "n", ts |-> Some(2)]]),
    Some([a \in { 2 } |-> [name |-> "n", ts |-> None]]) }

\* all_keys = sorted(chars), chars = {**old_chars, **api_chars}
CycleWindow == Sorted(DOMAIN OldChars(lua) \cup leaderboard_keys)

\* proc_one for the next character of the window: "if not data: return",
\* "if ach_dict: db_upsert(key, cid, ach_dict)"
ProcOne(outcome) ==
  /\ run = "batch"
  /\ op[1] \in { "seed", "fetch" }
  /\ op[2] < Len(CycleWindow)
  /\ LET k == CycleWindow[op[2] + 1]
         cid == IF k \notin leaderboard_keys THEN OldChars(lua)[k] ELSE GuidOf(k) IN
     db' = IF IsNone(outcome) THEN db ELSE db_upsert(db, k, cid, outcome[1])
  /\ pre' = db
  /\ op' = << "fetch", op[2] + 1 >>
  /\ UNCHANGED << shards, lua, run, clusterVars, restVars >>

InitCycle ==
  /\ RestIdle
  /\ ClusterIdle
  /\ db = EmptyStore
  /\ pre = EmptyStore
  /\ shards = EmptyStore
  /\ lua \in CycleOutputs
  /\ run = "idle"
  /\ op = << "init", 0 >>

NextCycle ==
  \/ op[1] \in { "init", "export" } /\ \E lb \in SUBSET { CycleRoot, CycleAlt } : StartBatch(lb)
  \/ \E outcome \in CycleOutcomes : ProcOne(outcome)
  \/ op = << "fetch", Len(CycleWindow) >> /\ EndBatch(1)
  \/ op[1] = "shard" /\ MergeOneShard(1)
  \/ op[1] = "merge" /\ ExportOnly

SpecCycle == InitCycle /\ [][NextCycle]_vars

\* C15: identities are never deleted. Every key of the previously published
\* output, root or alt, is in the merged store and in the output published
\* at the end of the cycle, whatever the outcome of its fetch.
C15_IdentitiesKept ==
  [][op'[1] = "export" =>
       /\ DOMAIN OldChars(lua) \subseteq DOMAIN db'
       /\ DOMAIN OldChars(lua) \subseteq DOMAIN OldChars(lua')]_vars

\* C22: when the output is published, the roots are elected with the set
\* of identities found on the live leaderboards during discovery: every
\* cluster with a member on a leaderboard has such a member as its root.
C22_LiveLeaderIsRoot ==
  op[1] = "export" =>
    \A r \in DOMAIN lua :
      ({ r } \cup Range(lua[r].alts)) \cap leaderboard_keys # {} => r \in leaderboard_keys

\* C38: the row that a successful live fetch has just stored carries a
\* non-zero guid, also when the identity is in the working set only as an
\* alt of a previously published entry.
C38_FetchedGuidNonZero ==
  (run = "batch" /\ op[1] = "fetch") =>
    \A k \in DOMAIN db :
      (k \notin DOMAIN pre \/ db[k] # pre[k]) => db[k].guid # 0

\* ---------------------------------------------- SpecMerge: shard merges
\* Rows of the merge specification: one key carries every combination of
\* entries, a second key is present or absent on either side.
MergeKey == << 1 >>
OtherKey == << 2 >>
AchMaps(name) ==
  UNION { [ S -> { [name |-> name, ts |-> t] : t \in OptTs } ] : S \in SUBSET AchIds }
MergeStores(name) ==
  { [k \in { MergeKey } |-> [guid |-> g, ach |-> m]] :
      g \in { 0, GuidOf(MergeKey) }, m \in AchMaps(name) }
  \cup
  { [k \in { MergeKey, OtherKey } |->
       IF k = MergeKey THEN [guid |-> GuidOf(MergeKey), ach |-> m]
       ELSE [guid |-> GuidOf(OtherKey),
             ach |-> [a \in { 1 } |-> [name |-> name, ts |-> None]]]] :
      m \in AchMaps(name) }
  \cup { EmptyStore }

InitMerge ==
  /\ RestIdle
  /\ ClusterIdle
  /\ db \in MergeStores("old")
  /\ pre = db
  /\ shards \in [ { 1 } -> MergeStores("new") \cup { db } ]
  /\ lua = EmptyStore
  /\ run = "idle"
  /\ op = << "init", 0 >>

NextMerge == \E s \in ShardIds : MergeOneShard(s)

SpecMerge == InitMerge /\ [][NextMerge]_vars

\* C1: shard merge precedence. After a merge of shard s, for every key in
\* both the store and the shard and every achievement ID on both sides the
\* merged entry is the side with a non-null timestamp, the later one when
\* both have one, the existing one when neither has; an ID (or key) on one
\* side only is kept unchanged.
Precedence(old, new, got) ==
  /\ (IsNone(old.ts) /\ ~IsNone(new.ts)) => got = new
  /\ (~IsNone(old.ts) /\ IsNone(new.ts)) => got = old
  /\ (IsNone(old.ts) /\ IsNone(new.ts)) => got = old
  /\ (~IsNone(old.ts) /\ ~IsNone(new.ts)) =>
       /\ TsVal(new.ts) > TsVal(old.ts) => got = new
       /\ TsVal(old.ts) > TsVal(new.ts) => got = old
       /\ got \in { old, new }
C1_MergePrecedence ==
  op[1] = "merge" =>
    LET s == shards[op[2]] IN
    /\ DOMAIN db = DOMAIN pre \cup DOMAIN s
    /\ \A k \in DOMAIN pre \ DOMAIN s : db[k] = pre[k]
    /\ \A k \in DOMAIN s \ DOMAIN pre : db[k] = s[k]
    /\ \A k \in DOMAIN s \cap DOMAIN pre :
         /\ DOMAIN db[k].ach = DOMAIN pre[k].ach \cup DOMAIN s[k].ach
         /\ \A a \in DOMAIN pre[k].ach \ DOMAIN s[k].ach :
              db[k].ach[a] = pre[k].ach[a]
         /\ \A a \in DOMAIN s[k].ach \ DOMAIN pre[k].ach :
              db[k].ach[a] = s[k].ach[a]
         /\ \A a \in DOMAIN s[k].ach \cap DOMAIN pre[k].ach :
              Precedence(pre[k].ach[a], s[k].ach[a], db[k].ach[a])

\* a merge met an ID with a timestamp on both sides, the existing one later,
\* and kept it, beside an ID that only the existing side has
C1_Witness ==
  /\ op[1] = "merge"
  /\ MergeKey \in DOMAIN pre /\ MergeKey \in DOMAIN shards[op[2]]
  /\ LET o == pre[MergeKey].ach
         n == shards[op[2]][MergeKey].ach IN
     /\ DOMAIN o = { 1, 2 } /\ DOMAIN n = { 1 }
     /\ o[1].ts = Some(2) /\ n[1].ts = Some(1)
     /\ db[MergeKey].ach[1] = o[1]
     /\ db[MergeKey].ach[2] = o[2]

\* C13: merge idempotence. Merging a shard that is a copy of the store
\* leaves every row (guid and every achievement entry) as it was, and a
\* merge of the shard that was merged just before changes nothing.
C13_MergeIdempotent ==
  /\ [](op[1] = "merge" /\ shards[op[2]] = pre => db = pre)
  /\ [][\A s \in ShardIds : (op = << "merge", s >> /\ op' = << "merge", s >>) => db' = db]_vars

\* a store with a timestamped and a null entry has been merged with a copy
\* of itself
C13_Witness ==
  /\ op = << "merge", 1 >>
  /\ shards[1] = pre
  /\ MergeKey \in DOMAIN pre
  /\ \E a, b \in DOMAIN pre[MergeKey].ach :
       IsNone(pre[MergeKey].ach[a].ts) /\ ~IsNone(pre[MergeKey].ach[b].ts)

\* store e holds at least what store d holds: every key, every ID of a
\* key, and for a timestamp of d one that is not null and not earlier
Monotone(d, e) ==
  /\ DOMAIN d \subseteq DOMAIN e
  /\ \A k \in DOMAIN d :
       /\ DOMAIN d[k].ach \subseteq DOMAIN e[k].ach
       /\ \A a \in DOMAIN d[k].ach :
            ~IsNone(d[k].ach[a].ts) =>
              /\ ~IsNone(e[k].ach[a].ts)
              /\ TsVal(e[k].ach[a].ts) >= TsVal(d[k].ach[a].ts)

\* C35: merge monotonicity. No step of a sequence of shard merges removes
\* a key or an achievement ID of a key, or replaces a timestamp by null or
\* by an earlier one; the store after a merge also holds at least what the
\* store held before it.
C35_MergeMonotone ==
  /\ [][Monotone(db, db')]_vars
  /\ [](op[1] = "merge" => Monotone(pre, db))

\* a shard without the second key, with one ID less and a null timestamp
\* has been merged: the key, the ID and the timestamp are still there
C35_Witness ==
  /\ op[1] = "merge"
  /\ DOMAIN shards[op[2]] = { MergeKey }
  /\ OtherKey \in DOMAIN pre /\ OtherKey \in DOMAIN db
  /\ LET o == pre[MergeKey].ach
         n == shards[op[2]][MergeKey].ach IN
     /\ DOMAIN o = { 1, 2 } /\ DOMAIN n = { 1 }
     /\ o[1].ts = Some(1) /\ IsNone(n[1].ts)
     /\ DOMAIN db[MergeKey].ach = { 1, 2 }
     /\ db[MergeKey].ach[1].ts = Some(1)

\* ------------------------------------- SpecFinalize: the finalize runs
\* finalize with ONE_SHARD naming a file that does not exist:
\* "[ERROR] Shard not found", return 0, then db.close() and sys.exit(0)
MergeMissingShard(s) ==
  /\ run = "idle"
  /\ s \notin DOMAIN shards
  /\ pre' = db
  /\ op' = << "nomerge", s >>
  /\ merged' = 0
  /\ exit_status' = 0
  /\ UNCHANGED << db, shards, lua, run, clusterVars, batchVars, sweepVars, limiterVars >>
  /\ UNCHANGED << exportVars, auxVars, committed, partial >>

\* merge_one_shard, the rows K of the shard that were merged before the
\* exception (the order of "SELECT key,guid,ach_json" is that of the file)
MergeRows(d, s, K) ==
  [k \in DOMAIN d \cup K |->
     IF k \in K THEN MergeRow(d, k, s[k].guid, s[k].ach) ELSE d[k]]

\* a close that keeps what was written since the last commit
CloseKeepsWrites(d, c) == d
\* db.close() with no db.commit() since the rows were written: the open
\* transaction is rolled back, the file holds c, its content at the last commit
CloseWithoutCommit(d, c) == Rollback(d, c)

\* finalize with ONE_SHARD naming a file that cannot be read or whose merge
\* raises after n rows: the exception is caught with a [WARN], db.commit()
\* is not reached, db.close() drops the n rows, then sys.exit(0)
MergeFailingShard(s, n) ==
  /\ run = "idle"
  /\ s \in DOMAIN shards
  /\ n <= Cardinality(DOMAIN shards[s])
  /\ pre' = db
  /\ \E K \in SUBSET DOMAIN shards[s] :
       /\ Cardinality(K) = n
       /\ db' = CloseWithoutCommit(MergeRows(db, shards[s], K), db)
  /\ op' = << "nomerge", s >>
  /\ merged' = n
  /\ exit_status' = 0
  /\ UNCHANGED << shards, lua, run, clusterVars, batchVars, sweepVars, limiterVars >>
  /\ UNCHANGED << exportVars, auxVars, committed, partial >>

\* finalize with neither ONE_SHARD nor EXPORT_ONLY: the store is seeded
\* from the published output, then merge_db_shards(shard_root) is called, a
\* name the module does not define (its body stands, unreachable, after the
\* return of _merge_ach_json): NameError, the process ends with status 1
OfflineFinalize ==
  /\ run = "idle"
  /\ pre' = db
  /\ db' = seed_db_from_lua_paths(db, lua)
  /\ op' = << "offline", 0 >>
  /\ merged' = 0
  /\ exit_status' = 1
  /\ UNCHANGED << shards, lua, run, clusterVars, batchVars, sweepVars, limiterVars >>
  /\ UNCHANGED << exportVars, auxVars, committed, partial >>

FinalizeStores ==
  { EmptyStore,
    [k \in { MergeKey } |->
       [guid |-> GuidOf(k), ach |-> [a \in { 1 } |-> [name |-> "old", ts |-> Some(1)]]]] }
FinalizeShards ==
  { [k \in { MergeKey } |->
       [guid |-> GuidOf(k), ach |-> [a \in { 1 } |-> [name |-> "new", ts |-> t]]]] :
      t \in OptTs }
  \cup
  { [k \in { MergeKey, OtherKey } |->
       [guid |-> GuidOf(k), ach |-> [a \in { 2 } |-> [name |-> "new", ts |-> Some(2)]]]],
    EmptyStore }
FinalizeOutputs ==
  { EmptyStore,
    [k \in { OtherKey } |-> [guid |-> GuidOf(k), alts |-> << >>, ach |-> [a \in { 1 } |-> "old"]]] }

InitFinalize ==
  /\ RestIdle
  /\ ClusterIdle
  /\ db \in FinalizeStores
  /\ pre = db
  /\ \E S \in SUBSET ShardIds : shards \in [ S -> FinalizeShards ]
  /\ lua \in FinalizeOutputs
  /\ run = "idle"
  /\ op = << "init", 0 >>

NextFinalize ==
  \/ \E s \in ShardIds : MergeOneShard(s)
  \/ \E s \in ShardIds : MergeMissingShard(s)
  \/ \E s \in ShardIds, n \in 0 .. 2 : MergeFailingShard(s, n)
  \/ OfflineFinalize
  \/ ExportOnly

SpecFinalize == InitFinalize /\ [][NextFinalize]_vars

\* C18: a finalize step that was to merge a shard and merged none (the
\* file is missing, cannot be read, or fails during the merge) ends with a
\* non-zero exit status.
C18_EmptyMergeFails ==
  op[1] = "nomerge" => exit_status > 0

\* C19: a finalize run with neither ONE_SHARD nor EXPORT_ONLY has merged
\* every shard of the shard directory into the store, by the precedence
\* rule (a further merge of any shard changes nothing), and has published
\* the clusters of the merged store.
C19_OfflineFinalizeMerges ==
  op[1] = "offline" =>
    /\ \A s \in DOMAIN shards : merge_one_shard(db, shards[s]) = db
    /\ \E am \in AltMapsOf(db) : lua = Publish(db, am, {})

\* C37: a shard merge is all-or-nothing. After a merge that failed, on
\* whichever row, the store is exactly the store before that merge began:
\* no row of the shard has been applied.
C37_FailedMergeAppliesNothing ==
  op[1] = "nomerge" => db = pre

\* a merge failed after its first row, which would have changed the store
C37_Witness ==
  /\ op[1] = "nomerge"
  /\ op[2] \in DOMAIN shards
  /\ merged = 1
  /\ \E k \in DOMAIN shards[op[2]] : MergeRows(db, shards[op[2]], { k }) # db
  /\ db = pre /\ db # EmptyStore

\* the mapping key -> (achievement ID -> timestamp) of a store
TsMap(d) == [k \in DOMAIN d |-> [a \in DOMAIN d[k].ach |-> d[k].ach[a].ts]]
\* store d after the merge of shard s and then of shard t
MergedInOrder(d, s, t) == merge_one_shard(merge_one_shard(d, shards[s]), shards[t])

\* C36: merge order independence. From every store the runs reach, the
\* merge of two shards gives the same timestamps, key by key and ID by ID,
\* and so the same fingerprints for the clustering, in either order; every
\* order of a set of shards is a sequence of such exchanges.
C36_MergeOrderIndependent ==
  \A s \in DOMAIN shards : \A t \in DOMAIN shards :
    /\ TsMap(MergedInOrder(db, s, t)) = TsMap(MergedInOrder(db, t, s))
    /\ Fingerprints(MergedInOrder(db, s, t)) = Fingerprints(MergedInOrder(db, t, s))

\* two shards that hold different timestamps for one ID of one key have
\* both been merged, the one with the later timestamp first
C36_Witness ==
  /\ op = << "merge", 1 >>
  /\ DOMAIN shards = ShardIds
  /\ MergeKey \in DOMAIN shards[1] /\ MergeKey \in DOMAIN shards[2]
  /\ 1 \in DOMAIN shards[1][MergeKey].ach /\ 1 \in DOMAIN shards[2][MergeKey].ach
  /\ shards[1][MergeKey].ach[1].ts = Some(1)
  /\ shards[2][MergeKey].ach[1].ts = Some(2)
  /\ pre = merge_one_shard(pre, shards[2])
  /\ db[MergeKey].ach[1].ts = Some(2)
  /\ lua = EmptyStore

\* --------------------------------------- SpecBatch: the batch window
\* number of identity keys that discovery can return
MaxKeys == 3
\* largest BATCH_SIZE
MaxBatchSize == 2

\* the keys of old_chars and api_chars
BatchKeys == { << i >> : i \in 1 .. MaxKeys }
BatchIds == 0 .. MaxKeys
\* --offset: not given (0), inside the list, at or past its end
Offsets == { 0, 1, MaxKeys }
Limits == { None } \cup { Some(n) : n \in 0 .. MaxBatchSize }

Min(a, b) == IF a <= b THEN a ELSE b
Max(a, b) == IF a >= b THEN a ELSE b

\* q[a:b] of Python for 0 <= a <= b
Slice(q, a, b) == SubSeq(q, a + 1, Min(b, Len(q)))

\* computed_total = (len(all_keys) + batch_size - 1) // batch_size
computed_total(n, bs) == (n + bs - 1) \div bs

\* a window start that makes consecutive windows overlap
WindowStartOverlap(offset, batch_id, bs) ==
  IF offset # 0 THEN offset ELSE batch_id * (bs - 1)
\* start = args.offset if args.offset else batch_id * batch_size
WindowStart(offset, batch_id, bs) ==
  IF offset # 0 THEN offset ELSE batch_id * bs

\* cur_limit = args.limit if args.limit else batch_size
\* (None and 0 are both false)
WindowLimit(limit, bs) ==
  IF limit # None /\ TsVal(limit) # 0 THEN TsVal(limit) ELSE bs

\* the batch-math invocation: neither --offset nor --limit is given
IsDefaultWindow(offset, limit) == offset = 0 /\ limit = None

\* bookkeeping shared by the two outcomes of a batch-mode invocation
RecordRun(b, offset, limit, processed) ==
  /\ last' = [ran |-> TRUE, batch_id |-> b, offset |-> offset, limit |-> limit,
              processed |-> processed]
  /\ IF IsDefaultWindow(offset, limit)
     THEN /\ windows' = [i \in DOMAIN windows \cup { b } |->
                           IF i = b THEN processed ELSE windows[i]]
          /\ again' = IF b \in DOMAIN windows THEN << windows[b], processed >> ELSE << >>
     ELSE UNCHANGED << windows, again >>
  /\ UNCHANGED << all_keys, batch_size, storeVars, clusterVars, moreVars, sweepVars, limiterVars >>

\* __main__, MODE == "batch": slice_keys = all_keys[start : start + cur_limit]
RunBatchWindow(b, offset, limit) ==
  LET start == WindowStart(offset, b, batch_size)
      cur_limit == WindowLimit(limit, batch_size) IN
  /\ start < Len(all_keys)
  /\ RecordRun(b, offset, limit, Slice(all_keys, start, start + cur_limit))

\* __main__, MODE == "batch", overshoot guard: start >= len(all_keys); an
\* empty partial and a shard are written and nothing is processed
RunBatchOvershoot(b, offset, limit) ==
  LET start == WindowStart(offset, b, batch_size) IN
  /\ start >= Len(all_keys)
  /\ RecordRun(b, offset, limit, << >>)

\* all_keys = sorted(chars) with chars = {**old_chars, **api_chars}; the
\* window depends on the length of the list only, so one list of each
\* length 0 .. MaxKeys is explored
InitBatch ==
  /\ MoreIdle
  /\ StoreIdle
  /\ ClusterIdle
  /\ SweepIdle
  /\ LimiterIdle
  /\ \E n \in 0 .. MaxKeys :
       LET old_chars == { k \in BatchKeys : k[1] <= n \div 2 }
           api_chars == { k \in BatchKeys : n \div 2 < k[1] /\ k[1] <= n } IN
       all_keys = Sorted(old_chars \cup api_chars)
  /\ batch_size \in 1 .. MaxBatchSize
  /\ windows = << >>
  /\ last = NoRun
  /\ again = << >>

NextBatch ==
  \/ \E b \in BatchIds, offset \in Offsets, limit \in Limits : RunBatchWindow(b, offset, limit)
  \/ \E b \in BatchIds, offset \in Offsets, limit \in Limits : RunBatchOvershoot(b, offset, limit)

SpecBatch == InitBatch /\ [][NextBatch]_vars

\* C6: explicit batch window. A batch-mode invocation given an offset in
\* 0 .. N and a limit of at least 1 on the command line, with any batch id,
\* processes exactly keys[offset : offset + limit].
C6_ExplicitWindow ==
  ( /\ last.ran
    /\ last.limit # None
    /\ TsVal(last.limit) >= 1
    /\ last.offset <= Len(all_keys) )
  => last.processed = Slice(all_keys, last.offset, last.offset + TsVal(last.limit))

\* the windows 0 .. total-1 one after the other
RECURSIVE ConcatWindows(_, _, _)
ConcatWindows(w, b, total) ==
  IF b >= total THEN << >> ELSE w[b] \o ConcatWindows(w, b + 1, total)

AddressedIds == 0 .. (computed_total(Len(all_keys), batch_size) - 1)

\* C7: batch-index windows partition the key space. The windows of the
\* batch ids 0 .. ceil(N/B)-1 are pairwise disjoint; once every one of them
\* has run, put one after the other they are the key list itself, each key
\* once; and an invocation repeated with the same batch id addresses the
\* same keys as before.
C7_BatchWindowsPartition ==
  /\ \A b1, b2 \in DOMAIN windows \cap AddressedIds :
       b1 # b2 => Range(windows[b1]) \cap Range(windows[b2]) = {}
  /\ AddressedIds \subseteq DOMAIN windows =>
       ConcatWindows(windows, 0, computed_total(Len(all_keys), batch_size)) = all_keys
  /\ again # << >> => again[1] = again[2]

\* every window of a three-key list cut by two has run, the last one is
\* not full, and one of them has run twice
C7_Witness ==
  /\ Len(all_keys) = 3
  /\ batch_size = 2
  /\ AddressedIds \subseteq DOMAIN windows
  /\ windows[1] = << all_keys[3] >>
  /\ again # << >>

\* ------------------------------------ SpecSweep: the retry sweep loop
\* number of sweeps after which the exploration stops
MaxSweeps == 3
\* largest Retry-After hint, in units of retry_interval
MaxHint == 2

retry_interval == 10
SweepKeys == { << 1 >>, << 2 >> }

\* Retry-After values of a 429 response (0: header absent or unparsable)
Hints == { 0 } \cup { retry_interval * h + 5 : h \in 1 .. MaxHint }

\* the filtered achievements of a 200 response that matched something
SweepResponse == [a \in { 1 } |-> [name |-> "n", ts |-> Some(1)]]

\* get_access_token: the credentials of the suffix are read from the
\* environment ("missing": RuntimeError) and posted to the token endpoint
\* ("http": raise_for_status or a connection error). The suffix is
\* CRED_SUFFIX_FORCE or CRED_SUFFIX_USED; credentials that have already
\* resolved once are still there on a later call.
TokenSuffix == IF CRED_SUFFIX_FORCE # "" THEN CRED_SUFFIX_FORCE ELSE CRED_SUFFIX_USED
TokenOutcomes(resolved) ==
  IF TokenSuffix \in resolved THEN { "ok", "http" } ELSE { "ok", "missing", "http" }
TokenError(o) == IF o = "missing" THEN "RuntimeError" ELSE "HTTPError"

\* a hint that is the one of the latest 429
LatestHint(hint, ra_secs) == ra_secs
\* if ra_secs > RETRY_AFTER_HINT: RETRY_AFTER_HINT = ra_secs
KeepHint(hint, ra_secs) == IF ra_secs > hint THEN ra_secs ELSE hint

\* fetch_with_rate_limit, status 429: the hint keeps the largest value and
\* the first 429 switches to the fallback credentials (REGION_HAS_FALLBACK
\* is true for every region the runner accepts)
On429(h) ==
  /\ RETRY_AFTER_HINT' = KeepHint(RETRY_AFTER_HINT, h)
  /\ hints_seen' = hints_seen \cup { h }
  /\ SWITCHED_TO_429' = TRUE
  /\ CRED_SUFFIX_USED' = IF SWITCHED_TO_429 THEN CRED_SUFFIX_USED ELSE "_429"

\* the exception a response of fetch_with_rate_limit ends in
FetchError(resp) ==
  CASE resp \in { "429", "5xx" } -> "RateLimitExceeded"
    [] resp = "4xx" -> "ClientResponseError"
    [] OTHER -> "RuntimeError"

\* per_sec.tokens = 0; per_sec.timestamp = time.monotonic(); per_sec.calls.clear()
ResetPerSec ==
  /\ tokens' = 0
  /\ timestamp' = now
  /\ calls' = << >>
  /\ since' = "fresh"
  /\ waits' = << >>

IndexResponses == { "200", "429", "5xx", "4xx", "timeout" }

\* an exception leaves asyncio.run (status 1) or __main__ catches
\* CancelledError and calls sys.exit(1): no db.commit(), no partial, no shard
ProcessDies ==
  /\ db' = Rollback(db, committed)
  /\ exit_status' = 1
  /\ UNCHANGED << pre, shards, lua, run, op, exportVars, auxVars, committed, partial, merged >>
ProcessRuns == UNCHANGED << storeVars, moreVars >>

\* process_characters, line 961: token = get_access_token(REGION)
GetToken(o) ==
  /\ spc = "start"
  /\ o \in TokenOutcomes({})
  /\ IF o = "ok"
     THEN spc' = "index" /\ fatal' = fatal /\ ProcessRuns
     ELSE spc' = "crashed" /\ fatal' = TokenError(o) /\ ProcessDies
  /\ UNCHANGED << characters, remaining, tasks, batch_i, retry_bucket, SWITCHED_TO_429,
                  CRED_SUFFIX_USED, CRED_SUFFIX_FORCE, headers_seen_suffix,
                  RETRY_AFTER_HINT, wait_for, sweeps, limited >>
  /\ UNCHANGED << clusterVars, batchVars, limiterVars >>
  /\ UNCHANGED << logVars, hints_seen >>

\* pvp_achs = await get_pvp_achievements(session, headers), then the reset
\* of per_sec and remaining = list(characters.values()). No handler is
\* around the call: whatever fetch_with_rate_limit raises leaves
\* process_characters and asyncio.run, and __main__ catches CancelledError only.
FetchIndex(resp, h) ==
  /\ spc = "index"
  /\ IF resp = "429" THEN On429(h)
     ELSE h = 0 /\ UNCHANGED << RETRY_AFTER_HINT, SWITCHED_TO_429, CRED_SUFFIX_USED, hints_seen >>
  /\ IF resp = "200"
     THEN /\ spc' = "top"
          /\ remaining' = characters
          /\ fatal' = fatal
          /\ ResetPerSec
          /\ ProcessRuns
     ELSE /\ spc' = "crashed"
          /\ fatal' = FetchError(resp)
          /\ ProcessDies
          /\ UNCHANGED << remaining, tokens, timestamp, calls, since, waits >>
  /\ UNCHANGED << characters, tasks, batch_i, retry_bucket, CRED_SUFFIX_FORCE,
                  headers_seen_suffix, wait_for, sweeps, limited >>
  /\ UNCHANGED << now, lockq, holder, wakeAt, inside, returns, clusterVars, batchVars >>
  /\ UNCHANGED logVars

\* top of "while remaining": the bearer token is re-acquired after a switch
\* of credentials. get_access_token is called outside any handler.
RefreshToken(o) ==
  /\ spc = "top"
  /\ SWITCHED_TO_429 /\ headers_seen_suffix # CRED_SUFFIX_USED
  /\ o \in TokenOutcomes({ IF CRED_SUFFIX_FORCE # "" THEN CRED_SUFFIX_FORCE ELSE "_1" })
  /\ IF o = "ok"
     THEN /\ spc' = spc /\ headers_seen_suffix' = CRED_SUFFIX_USED /\ fatal' = fatal
          /\ ProcessRuns
     ELSE /\ spc' = "crashed" /\ headers_seen_suffix' = headers_seen_suffix
          /\ fatal' = TokenError(o)
          /\ ProcessDies
  /\ UNCHANGED << characters, remaining, tasks, batch_i, retry_bucket, SWITCHED_TO_429,
                  CRED_SUFFIX_USED, CRED_SUFFIX_FORCE, RETRY_AFTER_HINT, wait_for,
                  sweeps, limited >>
  /\ UNCHANGED << clusterVars, batchVars, limiterVars >>
  /\ UNCHANGED << logVars, hints_seen >>

\* batches = (len(remaining) + BATCH_SIZE - 1) // BATCH_SIZE
SubBatches == computed_total(Len(remaining), batch_size)
\* batch = remaining[i * BATCH_SIZE : (i + 1) * BATCH_SIZE]
SubBatch(i) == Range(Slice(remaining, i * batch_size, (i + 1) * batch_size))

\* one pass of "while remaining" begins: retry_bucket = {} and the tasks of
\* the first sub-batch are created
BeginSweep ==
  /\ spc = "top"
  /\ ~(SWITCHED_TO_429 /\ headers_seen_suffix # CRED_SUFFIX_USED)
  /\ remaining # << >>
  /\ spc' = "batch"
  /\ retry_bucket' = << >>
  /\ batch_i' = 0
  /\ tasks' = Range(Slice(remaining, 0, batch_size))
  /\ UNCHANGED << characters, remaining, SWITCHED_TO_429, CRED_SUFFIX_USED,
                  CRED_SUFFIX_FORCE, headers_seen_suffix, RETRY_AFTER_HINT, wait_for,
                  sweeps, limited, fatal >>
  /\ UNCHANGED << storeVars, clusterVars, moreVars, batchVars, limiterVars >>
  /\ UNCHANGED << logVars, hints_seen >>

TaskResponses ==
  { "stored", "nomatch", "empty", "429", "5xx", "4xx", "timeout", "malformed" }

\* pvp_achs: the IDs of the PvP achievements index; every other ID is dropped
pvp_achs == AchIds

\* data["achievements"] of a 200 response, by its IDs: "stored" earned an ID
\* of the index and one outside it, "nomatch" only one outside it
Earned(resp) ==
  CASE resp = "stored" -> { 1, MaxAch + 1 }
    [] resp = "nomatch" -> { MaxAch + 1 }
    [] OTHER -> {}

\* an ach_dict that keeps every earned achievement
AchDictAll(earned) == [a \in earned |-> [name |-> "n", ts |-> Some(1)]]
\* proc_one: "if aid not in pvp_achs: continue", ach_dict[aid] = {name, ts}
AchDict(earned) == [a \in earned \cap pvp_achs |-> [name |-> "n", ts |-> Some(1)]]

\* every failed fetch is queued again
RetryableAll(resp) == resp \notin { "stored", "nomatch", "empty" }
\* fetch_with_rate_limit raises RateLimitExceeded on 429 and on 5xx, and
\* proc_one turns it into RetryCharacter
Retryable(resp) == resp \in { "429", "5xx" }

\* retry_bucket[k] = rc.char: a dict keeps the position of a key it has
PutRetry(bucket, k) == IF k \in Range(bucket) THEN bucket ELSE Append(bucket, k)

\* the outcome of a fetch of k is noted in the log of the pass
LogFetch(log, k, resp) ==
  [x \in DOMAIN log \cup { k } |->
     IF x = k THEN (IF k \in DOMAIN log THEN Append(log[k], resp) ELSE << resp >>)
     ELSE log[x]]

\* proc_one(c) together with its "await shield(t)" in the sweep loop:
\*   200 with relevant achievements: db_upsert;  200 without: nothing;
\*   200 with no data ("empty"): "if not data: return";
\*   429 / 5xx: RateLimitExceeded -> RetryCharacter -> retry_bucket;
\*   anything else: "except Exception: continue", the identity is dropped
\* The task has left "async with sem" when it is done.
TaskDone(k, resp, h) ==
  /\ spc = "batch"
  /\ k \in tasks
  /\ tasks' = tasks \ { k }
  /\ IF resp = "429" THEN On429(h)
     ELSE h = 0 /\ UNCHANGED << RETRY_AFTER_HINT, SWITCHED_TO_429, CRED_SUFFIX_USED, hints_seen >>
  /\ IF Retryable(resp)
     THEN retry_bucket' = PutRetry(retry_bucket, k) /\ limited' = limited \cup { k }
     ELSE retry_bucket' = retry_bucket /\ limited' = limited \ { k }
  /\ IF resp \in { "stored", "nomatch" } /\ DOMAIN AchDict(Earned(resp)) # {}
     THEN /\ db' = db_upsert(db, k, GuidOf(k), AchDict(Earned(resp)))
          /\ pre' = db
          /\ op' = << "fetch", 0 >>
     ELSE UNCHANGED << db, pre, op >>
  /\ pass_log' = LogFetch(pass_log, k, resp)
  /\ completed' =
       IF resp \in { "stored", "nomatch", "empty" } THEN completed + 1 ELSE completed
  /\ settled' = IF resp \in { "429", "5xx" } THEN settled ELSE settled \cup { k }
  /\ prev_log' = prev_log
  /\ fetching' = fetching \ { k }
  /\ UNCHANGED << characters, remaining, batch_i, CRED_SUFFIX_FORCE, headers_seen_suffix,
                  wait_for, sweeps, spc, fatal >>
  /\ UNCHANGED << shards, lua, run, clusterVars, batchVars, limiterVars >>
  /\ UNCHANGED << exportVars, procVars, entryVars, fetchVars, answers >>

\* "for i in range(batches)": the tasks of the next sub-batch are created
\* once every task of the current one has been awaited
NextSubBatch ==
  /\ spc = "batch"
  /\ tasks = {}
  /\ batch_i + 1 < SubBatches
  /\ batch_i' = batch_i + 1
  /\ tasks' = SubBatch(batch_i + 1)
  /\ UNCHANGED << spc, characters, remaining, retry_bucket, SWITCHED_TO_429,
                  CRED_SUFFIX_USED, CRED_SUFFIX_FORCE, headers_seen_suffix,
                  RETRY_AFTER_HINT, wait_for, sweeps, limited, fatal >>
  /\ UNCHANGED << storeVars, clusterVars, moreVars, batchVars, limiterVars >>
  /\ UNCHANGED << logVars, hints_seen >>

\* a retry that sweeps the whole list again
NextRemainingAll(bucket, rem) == rem
\* remaining = list(retry_bucket.values())
NextRemaining(bucket, rem) == bucket

\* end of a pass with a non-empty retry bucket:
\*   wait_for = max(retry_interval, int(RETRY_AFTER_HINT or 0)); RETRY_AFTER_HINT = 0
\*   await asyncio.sleep(wait_for); remaining = list(retry_bucket.values())
Requeue ==
  /\ spc = "batch"
  /\ tasks = {}
  /\ batch_i + 1 >= SubBatches
  /\ retry_bucket # << >>
  /\ sweeps < MaxSweeps
  /\ wait_for' = Max(retry_interval, RETRY_AFTER_HINT)
  /\ RETRY_AFTER_HINT' = 0
  /\ remaining' = NextRemaining(retry_bucket, remaining)
  /\ sweeps' = sweeps + 1
  /\ spc' = "top"
  /\ prev_log' = pass_log
  /\ pass_log' = << >>
  /\ completed' = completed
  /\ settled' = settled
  /\ hints_seen' = {}
  /\ UNCHANGED << characters, tasks, batch_i, retry_bucket, SWITCHED_TO_429,
                  CRED_SUFFIX_USED, CRED_SUFFIX_FORCE, headers_seen_suffix, limited, fatal >>
  /\ UNCHANGED << storeVars, clusterVars, moreVars, batchVars, limiterVars >>

\* end of a pass with an empty retry bucket: break, then db.commit(); the
\* partial output of the rows of this batch is written, the store file is
\* copied to the shard of the batch, and __main__ ends with sys.exit(0)
Commit ==
  /\ spc = "batch"
  /\ tasks = {}
  /\ batch_i + 1 >= SubBatches
  /\ retry_bucket = << >>
  /\ spc' = "done"
  /\ committed' = db
  /\ partial' = DOMAIN db \cap Range(characters)
  /\ shards' = [s \in DOMAIN shards \cup { 1 } |-> IF s = 1 THEN db ELSE shards[s]]
  /\ exit_status' = 0
  /\ UNCHANGED << characters, remaining, tasks, batch_i, retry_bucket, SWITCHED_TO_429,
                  CRED_SUFFIX_USED, CRED_SUFFIX_FORCE, headers_seen_suffix,
                  RETRY_AFTER_HINT, wait_for, sweeps, limited, fatal >>
  /\ UNCHANGED << db, pre, lua, run, op, exportVars, auxVars, merged >>
  /\ UNCHANGED << clusterVars, batchVars, limiterVars >>
  /\ UNCHANGED << logVars, hints_seen >>

\* the run is cancelled while tasks of a sub-batch are awaited:
\* CancelledError is not an Exception, it leaves the sweep loop and
\* asyncio.run, and __main__ prints "[WARN] batch ... cancelled" and exits
Cancel ==
  /\ spc = "batch"
  /\ tasks # {}
  /\ spc' = "cancelled"
  /\ fatal' = "CancelledError"
  /\ ProcessDies
  /\ UNCHANGED << characters, remaining, tasks, batch_i, retry_bucket, SWITCHED_TO_429,
                  CRED_SUFFIX_USED, CRED_SUFFIX_FORCE, headers_seen_suffix,
                  RETRY_AFTER_HINT, wait_for, sweeps, limited >>
  /\ UNCHANGED << clusterVars, batchVars, limiterVars >>
  /\ UNCHANGED << logVars, hints_seen >>

\* the store at the start of process_characters: empty, or seeded from the
\* published output and committed
SweepStores ==
  { EmptyStore,
    [k \in { << 1 >> } |->
       [guid |-> GuidOf(k), ach |-> [a \in AchIds |-> [name |-> "n", ts |-> None]]]] }

\* process_characters(characters, leaderboard_keys) is entered with a
\* non-empty slice of the key list
InitSweep ==
  /\ ExportIdle
  /\ AuxIdle
  /\ db \in SweepStores
  /\ pre = db
  /\ shards = EmptyStore
  /\ lua = EmptyStore
  /\ run = "idle"
  /\ op = << "init", 0 >>
  /\ committed = db
  /\ partial = {}
  /\ exit_status = -1
  /\ merged = 0
  /\ ClusterIdle
  /\ LimiterIdle
  /\ all_keys = << >>
  /\ batch_size \in 1 .. MaxBatchSize
  /\ windows = << >>
  /\ last = NoRun
  /\ again = << >>
  /\ spc = "start"
  /\ characters \in { Sorted(S) : S \in (SUBSET SweepKeys) \ { {} } }
  /\ remaining = << >>
  /\ tasks = {}
  /\ batch_i = 0
  /\ retry_bucket = << >>
  /\ SWITCHED_TO_429 = FALSE
  /\ CRED_SUFFIX_USED = "_1"
  /\ CRED_SUFFIX_FORCE \in { "", "_1" }
  /\ headers_seen_suffix = "_1"
  /\ RETRY_AFTER_HINT = 0
  /\ wait_for = 0
  /\ sweeps = 0
  /\ limited = {}
  /\ fatal = "none"
  /\ pass_log = << >>
  /\ prev_log = << >>
  /\ completed = 0
  /\ settled = {}
  /\ hints_seen = {}

NextSweep ==
  \/ \E o \in { "ok", "missing", "http" } : GetToken(o)
  \/ \E resp \in IndexResponses, h \in Hints : FetchIndex(resp, h)
  \/ \E o \in { "ok", "missing", "http" } : RefreshToken(o)
  \/ BeginSweep
  \/ \E k \in SweepKeys, resp \in TaskResponses, h \in Hints : TaskDone(k, resp, h)
  \/ NextSubBatch
  \/ Requeue
  \/ Commit
  \/ Cancel

SpecSweep == InitSweep /\ [][NextSweep]_vars

\* identities of the current pass that have not been fetched in it yet
PendingInPass ==
  tasks \cup Range(Slice(remaining, (batch_i + 1) * batch_size, Len(remaining)))

\* C8: retry exhaustion never aborts the run. An identity every fetch of
\* which was RateLimited is in the retry bucket once the pass has fetched
\* it (and is still to be fetched otherwise); no exception has reached the
\* top level and the run has not ended.
C8_RetryNeverAborts ==
  \A k \in limited :
    /\ spc \notin { "crashed", "done" }
    /\ \/ k \in Range(retry_bucket)
       \/ spc = "batch" /\ k \in PendingInPass

\* C9: a throttling response (429 or 5xx) to a request of the fetch client
\* during a batch run, the achievement-index fetch included, is never
\* fatal: RateLimitExceeded does not reach the top level.
C9_ThrottlingNeverFatal == ~(spc = "crashed" /\ fatal = "RateLimitExceeded")

\* C17: store durability on interruption. When a batch run is cancelled
\* or crashes, the store holds exactly the rows of its last commit (no
\* fetch result of the run, whole or in part), and neither a shard nor a
\* partial output of the batch has been written.
C17_InterruptionKeepsLastCommit ==
  spc \in { "crashed", "cancelled" } =>
    /\ db = committed
    /\ shards = EmptyStore
    /\ partial = {}
    /\ exit_status # 0

\* a run over a seeded store is cancelled after a fetch result was upserted
\* and while another fetch is in flight
C17_Witness ==
  /\ spc = "cancelled"
  /\ op = << "fetch", 0 >>
  /\ pre # EmptyStore
  /\ tasks # {}

\* what the last fetch of k in a log ended in
LastOf(log, k) == log[k][Len(log[k])]
\* the identities of the pass before this one whose fetch was RateLimited
LimitedBefore == { k \in DOMAIN prev_log : LastOf(prev_log, k) \in { "429", "5xx" } }
\* a step in which the fetch of k ends in one of the responses R
FetchEnded(k, R) ==
  /\ spc = "batch"
  /\ k \in tasks /\ k \notin tasks'
  /\ pass_log' # pass_log
  /\ LastOf(pass_log', k) \in R

\* C25: in a retry sweep (sweep n+1), the identities fetched and still to
\* fetch are exactly those whose fetch in sweep n ended RateLimited (429 or
\* 5xx), none is fetched twice in the sweep, and the list swept holds each
\* of them once; an identity stored, without match or dropped in sweep n is
\* not among them.
C25_RetrySetIsLimited ==
  (spc = "batch" /\ sweeps >= 1) =>
    /\ DOMAIN pass_log \cup PendingInPass = LimitedBefore
    /\ DOMAIN pass_log \cap PendingInPass = {}
    /\ \A k \in DOMAIN pass_log : Len(pass_log[k]) = 1
    /\ Len(remaining) = Cardinality(LimitedBefore)
    /\ \A k \in DOMAIN prev_log :
         LastOf(prev_log, k) \notin { "429", "5xx" } => k \notin Range(remaining)

C25_Witness ==
  /\ spc = "batch"
  /\ sweeps = 1
  /\ DOMAIN prev_log = SweepKeys
  /\ LastOf(prev_log, << 1 >>) = "5xx"
  /\ LastOf(prev_log, << 2 >>) = "stored"
  /\ DOMAIN pass_log = { << 1 >> }
  /\ PendingInPass = {}

\* the largest of a set of hints, 0 for none
MaxOf(S) == IF S = {} THEN 0 ELSE CHOOSE x \in S : \A y \in S : y <= x

\* C26: the hint is always the largest Retry-After of the 429 responses
\* seen since it was last reset (0 if none); the wait after a sweep whose
\* retry bucket is not empty is max(10 s, that hint), and the hint is reset
\* to 0 in the same step, so that a later wait starts from 0 again.
C26_WaitIsLargestHint ==
  /\ [](RETRY_AFTER_HINT = MaxOf(hints_seen))
  /\ [][sweeps' = sweeps + 1 =>
          /\ retry_bucket # << >>
          /\ wait_for' = (IF MaxOf(hints_seen) > retry_interval
                          THEN MaxOf(hints_seen) ELSE retry_interval)
          /\ RETRY_AFTER_HINT' = 0
          /\ hints_seen' = {}]_vars

C26_Witness ==
  /\ spc = "top"
  /\ sweeps = 1
  /\ DOMAIN prev_log = SweepKeys
  /\ \A k \in SweepKeys : LastOf(prev_log, k) = "429"
  /\ wait_for = retry_interval * MaxHint + 5
  /\ RETRY_AFTER_HINT = 0

\* C27: a fetch that ends in anything other than RateLimited (a 4xx other
\* than 429, timeouts on every attempt, a malformed response) does not put
\* the identity in the retry bucket, leaves the store as it was, does not
\* count as completed, leaves the other tasks of the sub-batch and the rest
\* of the list in place, and the run goes on.
C27_FailedFetchIsDropped ==
  [][\A k \in SweepKeys :
       FetchEnded(k, { "4xx", "timeout", "malformed" }) =>
         /\ retry_bucket' = retry_bucket
         /\ k \notin Range(retry_bucket')
         /\ db' = db
         /\ tasks' = tasks \ { k }
         /\ remaining' = remaining /\ batch_i' = batch_i
         /\ spc' = "batch" /\ fatal' = fatal
         /\ completed' = completed]_vars

C27_Witness ==
  /\ spc = "batch"
  /\ batch_size = 1
  /\ sweeps = 0
  /\ DOMAIN pass_log = SweepKeys
  /\ LastOf(pass_log, << 1 >>) = "malformed"
  /\ LastOf(pass_log, << 2 >>) = "stored"
  /\ << 2 >> \in DOMAIN db /\ << 2 >> \notin DOMAIN committed
  /\ << 1 >> \in DOMAIN committed /\ db[<< 1 >>] = committed[<< 1 >>]
  /\ retry_bucket = << >>

\* C29: a fetch that matched a relevant achievement leaves, as the row of
\* the identity, exactly the filtered response: the earned IDs of the index
\* with their name and timestamp, and nothing of the row stored before.
C29_SnapshotIsResponse ==
  [][\A k \in SweepKeys :
       FetchEnded(k, { "stored" }) =>
         /\ k \in DOMAIN db'
         /\ db'[k].ach = SweepResponse
         /\ DOMAIN db'[k].ach = Earned("stored") \cap pvp_achs
         /\ \A x \in DOMAIN db : x # k => db'[x] = db[x]]_vars

C29_Witness ==
  /\ spc = "batch"
  /\ << 1 >> \in DOMAIN pass_log /\ LastOf(pass_log, << 1 >>) = "stored"
  /\ << 1 >> \in DOMAIN pre /\ DOMAIN pre[<< 1 >>].ach = AchIds
  /\ DOMAIN db[<< 1 >>].ach = { 1 }
  /\ db[<< 1 >>].ach[1].ts = Some(1)

\* C30: a fetch that succeeds with no data, or with no achievement of the
\* index, leaves the store exactly as it was, counts as completed and does
\* not put the identity in the retry bucket; the identity is not in the
\* list of the next sweep.
C30_NoMatchKeepsRow ==
  /\ [][\A k \in SweepKeys :
          FetchEnded(k, { "nomatch", "empty" }) =>
            /\ db' = db
            /\ completed' = completed + 1
            /\ retry_bucket' = retry_bucket
            /\ k \notin Range(retry_bucket')]_vars
  /\ [](\A k \in DOMAIN prev_log :
          LastOf(prev_log, k) \in { "nomatch", "empty" } => k \notin Range(remaining))

C30_Witness ==
  /\ spc = "batch"
  /\ sweeps = 1
  /\ DOMAIN prev_log = SweepKeys
  /\ LastOf(prev_log, << 1 >>) = "nomatch"
  /\ LastOf(prev_log, << 2 >>) = "429"
  /\ remaining = << << 2 >> >>
  /\ db = committed /\ << 1 >> \in DOMAIN db
  /\ completed = 1

\* ------------------------------------ SpecLimiter: the token bucket
\* Time is counted in ticks and tokens in 1/TicksPerToken of a token, so
\* that with period = max_calls * TicksPerToken ticks the refill
\* elapsed * fill_rate of one tick is one unit and every quantity of
\* acquire() is an integer.
\* max_calls of the limiter
LimCapacity == 2
\* period / max_calls, in ticks
TicksPerToken == 2
\* last tick of the clock
MaxNow == 10

Callers == { 1, 2 }
OneToken == TicksPerToken
\* self.capacity, in units
CapacityUnits == LimCapacity * TicksPerToken
\* self.period, in ticks
Period == LimCapacity * TicksPerToken

\* a refill that is not capped at the capacity
RefillUncapped(tok, elapsed) == tok + elapsed
\* min(self.capacity, self.tokens + elapsed * self.fill_rate)
Refill(tok, elapsed) == Min(CapacityUnits, tok + elapsed)

\* self.calls = [t for t in self.calls if now - t < self.period]; self.calls.append(now)
RecordCall(cs, t) == Append(SelectSeq(cs, LAMBDA x : t - x < Period), t)

\* the sleeps asked for by the acquires that follow one another with no
\* idle time in between, and the state of the bucket the first one met
NoteWait(tok, w) ==
  IF since = "idle"
  THEN /\ since' = IF tok >= CapacityUnits THEN "full" ELSE "partial"
       /\ waits' = << w >>
  ELSE /\ since' = since
       /\ waits' = IF Len(waits) < LimCapacity + 2 THEN Append(waits, w) ELSE waits

\* an acquire that does not wait for its token
WaitNone(tok) == 0
\* wait = (1 - self.tokens) / self.fill_rate, in ticks
WaitFor(tok) == OneToken - tok

\* acquire() from "now = time.monotonic()" on, the lock held by caller c:
\* refill; below one token the caller sleeps (1 - tokens) / fill_rate with
\* the lock held, otherwise one token is taken and the lock released
Admission(c) ==
  LET elapsed == now - timestamp
      tok == Refill(tokens, elapsed) IN
  /\ timestamp' = now
  /\ IF tok < OneToken
     THEN /\ tokens' = tok
          /\ holder' = c
          /\ inside' = inside \cup { c }
          /\ wakeAt' = now + WaitFor(tok)
          /\ calls' = calls
          /\ returns' = returns
          /\ NoteWait(tok, OneToken - tok)
     ELSE /\ tokens' = tok - OneToken
          /\ holder' = 0
          /\ inside' = inside
          /\ wakeAt' = wakeAt
          /\ calls' = RecordCall(calls, now)
          /\ returns' = Append(returns, now)
          /\ NoteWait(tok, 0)

\* an acquire() that enters without the lock
LockIgnored == TRUE
\* async with self._lock, entered at once: nobody holds the lock or waits for it
LockFree == holder = 0 /\ lockq = << >>

\* acquire() called while the lock is free and nobody waits for it
AcquireNow(c) ==
  /\ c \notin inside
  /\ LockFree
  /\ Admission(c)
  /\ UNCHANGED << now, lockq, storeVars, clusterVars, moreVars, batchVars, sweepVars >>

\* acquire() called while the lock is held: the caller queues on the lock
AcquireQueue(c) ==
  /\ holder # 0 /\ holder # c
  /\ c \notin Range(lockq)
  /\ lockq' = Append(lockq, c)
  /\ UNCHANGED << now, tokens, timestamp, calls, holder, wakeAt, since, waits, inside, returns >>
  /\ UNCHANGED << storeVars, clusterVars, moreVars, batchVars, sweepVars >>

\* the lock is handed to the first caller of its queue
Granted(c) ==
  /\ holder = 0 /\ lockq # << >> /\ Head(lockq) = c
  /\ lockq' = Tail(lockq)
  /\ Admission(c)
  /\ UNCHANGED << now, storeVars, clusterVars, moreVars, batchVars, sweepVars >>

\* the sleep of acquire() is over: timestamp = now, tokens = 1, then the
\* token is taken, the call recorded and the lock released
Wake(c) ==
  /\ holder = c /\ now >= wakeAt
  /\ timestamp' = now
  /\ tokens' = OneToken - OneToken
  /\ calls' = RecordCall(calls, now)
  /\ holder' = 0
  /\ inside' = inside \ { c }
  /\ returns' = Append(returns, now)
  /\ UNCHANGED << now, lockq, wakeAt, since, waits >>
  /\ UNCHANGED << storeVars, clusterVars, moreVars, batchVars, sweepVars >>

\* time passes: during a sleep (which may last longer than asked for), or
\* while nobody is in acquire(), which ends a run of back-to-back calls
Tick ==
  /\ now < MaxNow
  /\ holder # 0 \/ lockq = << >>
  /\ now' = now + 1
  /\ since' = IF holder = 0 THEN "idle" ELSE since
  /\ UNCHANGED << tokens, timestamp, calls, lockq, holder, wakeAt, waits, inside, returns >>
  /\ UNCHANGED << storeVars, clusterVars, moreVars, batchVars, sweepVars >>

\* process_characters, lines 973-975: per_sec is reset before the sweeps
ResetLimiter ==
  /\ holder = 0 /\ lockq = << >>
  /\ ResetPerSec
  /\ UNCHANGED << now, lockq, holder, wakeAt, inside, returns >>
  /\ UNCHANGED << storeVars, clusterVars, moreVars, batchVars, sweepVars >>

\* RateLimiter.__init__: tokens = 0, timestamp = time.monotonic()
InitLimiter ==
  /\ MoreIdle
  /\ StoreIdle
  /\ ClusterIdle
  /\ BatchIdle
  /\ SweepIdle
  /\ now = 0
  /\ tokens = 0
  /\ timestamp = now
  /\ calls = << >>
  /\ lockq = << >>
  /\ holder = 0
  /\ wakeAt = 0
  /\ since = "fresh"
  /\ waits = << >>
  /\ inside = {}
  /\ returns = << >>

NextLimiter ==
  \/ \E c \in Callers : AcquireNow(c)
  \/ \E c \in Callers : AcquireQueue(c)
  \/ \E c \in Callers : Granted(c)
  \/ \E c \in Callers : Wake(c)
  \/ Tick
  \/ ResetLimiter

SpecLimiter == InitLimiter /\ [][NextLimiter]_vars

\* C10 as stated: of the acquires issued back to back on a freshly
\* constructed or freshly reset limiter the first LimCapacity ask for no
\* sleep and the next one sleeps period / max_calls.
C10_FreshBurst ==
  since = "fresh" =>
    \A i \in DOMAIN waits : waits[i] = IF i <= LimCapacity THEN 0 ELSE TicksPerToken

\* C10, amended: a freshly constructed or freshly reset limiter holds no
\* token, so every acquire issued back to back on it, the first included,
\* sleeps period / max_calls; the burst exists once the bucket has refilled
\* to its capacity: of the acquires issued back to back on a full bucket
\* the first LimCapacity ask for no sleep and every later one sleeps
\* period / max_calls.
C10_BurstAfterRefill ==
  /\ since = "fresh" => \A i \in DOMAIN waits : waits[i] = TicksPerToken
  /\ since = "full" =>
       \A i \in DOMAIN waits : waits[i] = IF i <= LimCapacity THEN 0 ELSE TicksPerToken

\* LimCapacity + 1 acquires have been issued back to back on a fresh limiter
C10_Witness ==
  /\ since = "fresh"
  /\ Len(waits) = LimCapacity + 1
  /\ holder = 0

\* C24: whatever the interleaving of the acquire() calls on one limiter, at
\* most one caller is between the read and the write of the bucket state
\* (the caller suspended in the forced wait is), the token count stays
\* within [0, capacity], and an acquire that completes leaves the count one
\* token below what it took from: the refilled count, or one token after
\* a forced wait (a completed acquire is a step that records a call).
C24_SerializedAcquire ==
  /\ [](/\ Cardinality(inside) <= 1
        /\ holder # 0 => inside = { holder }
        /\ tokens >= 0 /\ tokens <= CapacityUnits)
  /\ [][(calls' # calls /\ calls' # << >>) =>
         tokens' + OneToken =
           (IF holder # 0 THEN OneToken ELSE Refill(tokens, now - timestamp))]_vars

\* a second caller has called acquire() while the first sleeps in it, and
\* waits for the lock
C24_Witness ==
  /\ holder = 1
  /\ lockq = << 2 >>
  /\ now < wakeAt
  /\ tokens > 0

\* C40: rate bound. In every execution and for every interval, the calls
\* of acquire() that return within it are at most C + r * d, d being the
\* length of the interval and r = C / period: between the i-th and the j-th
\* return, both included, at most C tokens and those refilled in the time
\* between them. (An interval holds the most returns for its length when
\* it begins and ends on one; a token is TicksPerToken ticks of refill.)
C40_RateBound ==
  \A i \in DOMAIN returns : \A j \in DOMAIN returns :
    i <= j =>
      (j - i + 1) * TicksPerToken <= CapacityUnits + (returns[j] - returns[i])

\* a full bucket has been emptied at once by the two callers, and the next
\* call returned one token's refill later: C + 1 returns in period / C
C40_Witness ==
  /\ Len(returns) >= LimCapacity + 2
  /\ \E i \in DOMAIN returns :
       /\ i + LimCapacity \in DOMAIN returns
       /\ returns[i + LimCapacity - 1] = returns[i]
       /\ returns[i + LimCapacity] = returns[i] + TicksPerToken
  /\ holder = 0

\* ------------------------- SpecExport: the chunk writer of the export
\* largest number of cluster entries of one export
MaxEntries == 3

\* byte lengths, for a two-letter REGION and a one-digit REGION_ID:
\* len("if GetCurrentRegion() ~= 1 then return end\n")
region_check_len == 43
\* len("-- File: RatedStats_Achiev/region_us.lua\nlocal achievements={\n")
header_len == 62
\* len("}\n\nACHIEVEMENTS_US = achievements\n")
footer_len == 34

\* byte lengths of the entry lines and values of MAX_LUA_PART_SIZE explored
EntrySizes == { 50, 60 }
Budgets == { header_len + footer_len + region_check_len + 100,
             header_len + footer_len + region_check_len + 115 }

\* len(str(part_idx))
Digits(i) == IF i < 10 THEN 1 ELSE 2

RECURSIVE LinesLen(_)
\* len("".join(lines).encode("utf-8"))
LinesLen(lines) == IF lines = << >> THEN 0 ELSE Head(lines)[2] + LinesLen(Tail(lines))

\* total_size of the chunk loop: the candidate with the header and footer
\* of the monolithic file and the region guard
total_size(candidate) == LinesLen(candidate) + header_len + footer_len + region_check_len

\* len(content) in write_chunk. The header and the footer of a part carry
\* "_part<n>" and "_PART<n>" on top of those of the monolithic file.
ContentLen(name, lines) ==
  IF name = 0
  THEN header_len + region_check_len + LinesLen(lines) + footer_len
  ELSE header_len + region_check_len + LinesLen(lines) + footer_len + 2 * (5 + Digits(name))

\* open(fname, "w").write(content): the file is created or replaced
WriteFile(d, name, lines) ==
  [f \in DOMAIN d \cup { name } |-> IF f = name THEN lines ELSE d[f]]
\* os.remove(OUTFILE)
RemoveFile(d, name) == [f \in DOMAIN d \ { name } |-> d[f]]

\* a split that forgets the line that did not fit
StartChunkEmpty(line) == << >>
\* current_lines = [line]
StartChunk(line) == << line >>

\* one iteration of "for line in entry_lines"
ChunkLine ==
  /\ epc = "loop"
  /\ pos <= Len(entry_lines)
  /\ LET line == entry_lines[pos]
         candidate == Append(current_lines, line) IN
     IF total_size(candidate) > MAX_BYTES
     THEN /\ disk' = WriteFile(disk, part_index, current_lines)
          /\ out_files' = Append(out_files, part_index)
          /\ part_index' = part_index + 1
          /\ current_lines' = StartChunk(line)
     ELSE /\ current_lines' = candidate
          /\ UNCHANGED << disk, out_files, part_index >>
  /\ pos' = pos + 1
  /\ UNCHANGED << entry_lines, MAX_BYTES, epc, old_disk >>
  /\ UNCHANGED << storeVars, clusterVars, batchVars, sweepVars, limiterVars, procVars, auxVars >>

\* "Final write": the monolithic file when nothing was split, otherwise the
\* last part and the removal of a stale monolithic file; then the marker
FinalWrite ==
  /\ epc = "loop"
  /\ pos > Len(entry_lines)
  /\ IF part_index = 1
     THEN /\ disk' = WriteFile(disk, 0, current_lines)
          /\ out_files' = Append(out_files, 0)
     ELSE /\ disk' = RemoveFile(WriteFile(disk, part_index, current_lines), 0)
          /\ out_files' = Append(out_files, part_index)
  /\ epc' = "done"
  /\ UNCHANGED << entry_lines, MAX_BYTES, pos, part_index, current_lines, old_disk >>
  /\ UNCHANGED << storeVars, clusterVars, batchVars, sweepVars, limiterVars, procVars, auxVars >>

\* the export is cancelled or killed between two writes
ExportKilled ==
  /\ epc = "loop"
  /\ epc' = "killed"
  /\ UNCHANGED << entry_lines, MAX_BYTES, pos, part_index, current_lines, out_files,
                  disk, old_disk >>
  /\ UNCHANGED << storeVars, clusterVars, batchVars, sweepVars, limiterVars, procVars, auxVars >>

\* the lines of the previous output (entry 0) and the files it was in
OldLine == << 0, 50 >>
OldGenerations ==
  { << >>,
    [f \in { 0 } |-> << OldLine >>],
    [f \in { 1, 2 } |-> << OldLine >>] }

\* the export branch after entry_lines is built: part_index = 1,
\* current_lines = [], out_files = []
InitExport ==
  /\ StoreIdle
  /\ ClusterIdle
  /\ BatchIdle
  /\ SweepIdle
  /\ LimiterIdle
  /\ ProcIdle
  /\ AuxIdle
  /\ \E n \in 0 .. MaxEntries :
       entry_lines \in { [i \in 1 .. n |-> << i, sz[i] >>] : sz \in [ 1 .. n -> EntrySizes ] }
  /\ MAX_BYTES \in Budgets
  /\ epc = "loop"
  /\ pos = 1
  /\ part_index = 1
  /\ current_lines = << >>
  /\ out_files = << >>
  /\ old_disk \in OldGenerations
  /\ disk = old_disk

NextExport == ChunkLine \/ FinalWrite \/ ExportKilled

SpecExport == InitExport /\ [][NextExport]_vars

\* every single entry fits the budget, written alone as any part
EntriesFit ==
  \A i \in DOMAIN entry_lines :
    ContentLen(MaxEntries + 1, << entry_lines[i] >>) <= MAX_BYTES

\* C11: output byte budget. When every single entry fits the budget, every
\* part file the export has written, counted with its header, region guard,
\* entries and footer, is at most MAX_BYTES long.
C11_PartsWithinBudget ==
  EntriesFit =>
    \A i \in DOMAIN out_files :
      out_files[i] # 0 => ContentLen(out_files[i], disk[out_files[i]]) <= MAX_BYTES

RECURSIVE ConcatFiles(_, _)
\* the entry lines of the files of names, one file after the other
ConcatFiles(d, names) ==
  IF names = << >> THEN << >> ELSE d[Head(names)] \o ConcatFiles(d, Tail(names))

\* C12: output chunking loses and duplicates nothing. During the chunk loop
\* the lines of the parts written so far followed by the lines of the part
\* being filled are the entries handled so far, in order; at the end the
\* lines of the written files, in the order of their part numbers, are the
\* cluster entries, each once; the written files are either the single
\* unnumbered file or the parts 1 .. k; and the unnumbered file is written
\* exactly when all entries fit in one unit.
C12_ChunksAreTheEntries ==
  /\ epc = "loop" =>
       ConcatFiles(disk, out_files) \o current_lines = SubSeq(entry_lines, 1, pos - 1)
  /\ epc = "done" =>
       /\ ConcatFiles(disk, out_files) = entry_lines
       /\ \/ out_files = << 0 >>
          \/ Len(out_files) >= 2 /\ \A i \in DOMAIN out_files : out_files[i] = i
       /\ out_files = << 0 >> <=> total_size(entry_lines) <= MAX_BYTES

\* an export of three entries that was split into parts has ended
C12_Witness ==
  /\ epc = "done"
  /\ Len(entry_lines) = 3
  /\ Len(out_files) >= 2

\* C16: the published output is replaced atomically. At every point of an
\* export, also when it is killed between two writes, the region files on
\* disk are the whole previous output or the whole new output.
C16_AtomicReplace ==
  \/ disk = old_disk
  \/ epc = "done" /\ DOMAIN disk = Range(out_files)

\* C39: after a successful export the region files on disk are exactly
\* the files this export wrote: no part file of an earlier generation is
\* left beside a monolithic file, and neither the monolithic file nor a part
\* numbered above the last one is left beside the parts.
C39_OnlyNewGenerationOnDisk ==
  epc = "done" => DOMAIN disk = Range(out_files)

\* ------------------------- SpecEntry: a row from the store to its line
\* largest achievement id of a stored row
MaxAchId == 11

\* str(n) of a non-negative int, as the list of its character codes
RECURSIVE StrOf(_)
StrOf(n) == IF n < 10 THEN << 48 + n >> ELSE Append(StrOf(n \div 10), 48 + (n % 10))
\* int(s) of a decimal string
RECURSIVE IntOf(_)
IntOf(s) ==
  IF s = << >> THEN 0 ELSE 10 * IntOf(SubSeq(s, 1, Len(s) - 1)) + (s[Len(s)] - 48)

\* json.dumps(ach): the int keys of the dict become member names, str(aid)
json_dumps(ach) ==
  [m \in { StrOf(a) : a \in DOMAIN ach } |-> ach[IntOf(m)]]
\* json.loads(j): the member names stay strings
json_loads(j) == j

\* for i, (aid, info) in enumerate(sorted(ach_map.items()), start=1):
\*     parts += [f"id{i}={aid}", f'name{i}="{esc}"']
\* sorted() orders the (aid, info) tuples by aid, a str
EntryParts(ach_map) ==
  LET order == Sorted(DOMAIN ach_map) IN
  [i \in DOMAIN order |-> [n |-> i, id |-> order[i], name |-> ach_map[order[i]]]]

\* db_upsert(key, guid, ach): the row is stored with ach as JSON text
StoreRow ==
  /\ ser = "upsert"
  /\ ach_json' = json_dumps(ach_arg)
  /\ ser' = "stored"
  /\ UNCHANGED << ach_arg, parts, fetchVars, semVars >>
  /\ UNCHANGED << storeVars, clusterVars, batchVars, sweepVars, limiterVars, exportVars, procVars >>

\* db_iter_rows (json.loads of the row) and the entry line of the row
WriteEntry ==
  /\ ser = "stored"
  /\ parts' = EntryParts(json_loads(ach_json))
  /\ ser' = "written"
  /\ UNCHANGED << ach_arg, ach_json, fetchVars, semVars >>
  /\ UNCHANGED << storeVars, clusterVars, batchVars, sweepVars, limiterVars, exportVars, procVars >>

InitEntry ==
  /\ StoreIdle
  /\ ClusterIdle
  /\ BatchIdle
  /\ SweepIdle
  /\ LimiterIdle
  /\ ExportIdle
  /\ ProcIdle
  /\ FetchIdle
  /\ SemIdle
  /\ ser = "upsert"
  /\ \E S \in SUBSET (1 .. MaxAchId) : ach_arg = [a \in S |-> "n"]
  /\ ach_json = << >>
  /\ parts = << >>

NextEntry == StoreRow \/ WriteEntry

SpecEntry == InitEntry /\ [][NextEntry]_vars

\* C21: in an entry the (idN, nameN) pairs are numbered consecutively from
\* 1, carry the stored achievement IDs, each once, and are in ascending
\* numeric order of the achievement ID.
C21_PairsAscending ==
  ser = "written" =>
    /\ \A i \in DOMAIN parts : parts[i].n = i
    /\ { IntOf(parts[i].id) : i \in DOMAIN parts } = DOMAIN ach_arg
    /\ Len(parts) = Cardinality(DOMAIN ach_arg)
    /\ \A i, j \in DOMAIN parts : i < j => IntOf(parts[i].id) < IntOf(parts[j].id)

\* ------------------------------- SpecFetch: fetch_with_rate_limit
\* calls of fetch_with_rate_limit explored
MaxCalls == 2
\* the default of the parameter max_retries
max_retries == 5

FetchUrls == { "index", "character" }
\* cacheable = "profile/wow/character" not in url and "oauth" not in url
cacheable(u) == u = "index"

\* what one session.get can end in: status 200, 429, a 5xx, a 4xx other
\* than 429, a status below 400 other than 200, or a socket timeout
FetchResponses == { "200", "429", "5xx", "4xx", "2xx", "timeout" }

\* a back-off that grows by 2 seconds per attempt
BackoffLinear(a) == 2 * a
\* await asyncio.sleep(2**attempt)
Backoff(a) == 2 ^ a

otherSweepVars ==
  << spc, characters, remaining, tasks, batch_i, retry_bucket, CRED_SUFFIX_FORCE,
     headers_seen_suffix, wait_for, sweeps, limited, fatal, logVars >>

\* entry of fetch_with_rate_limit: a cached response is returned at once;
\* otherwise METRICS is bumped and both limiters are acquired, once
FetchEnter(u) ==
  /\ fpc \in { "idle", "returned", "raised" }
  /\ ncalls < MaxCalls
  /\ ncalls' = ncalls + 1
  /\ url' = u
  /\ responses' = << >>
  /\ backoff' = << >>
  /\ IF cacheable(u) /\ u \in url_cache
     THEN /\ fpc' = "returned"
          /\ result' = "cached"
          /\ attempt' = 0
          /\ UNCHANGED << acq_sec, acq_hour >>
     ELSE /\ fpc' = "attempt"
          /\ result' = "none"
          /\ attempt' = 1
          /\ acq_sec' = acq_sec + 1
          /\ acq_hour' = acq_hour + 1
  /\ UNCHANGED << url_cache, requests, entryVars, semVars >>
  /\ UNCHANGED << storeVars, clusterVars, batchVars, sweepVars, limiterVars, exportVars, procVars >>

\* the loop goes on to its next attempt, or ends: raise RuntimeError
NextAttempt ==
  IF attempt < max_retries
  THEN fpc' = "attempt" /\ attempt' = attempt + 1 /\ result' = result
  ELSE fpc' = "raised" /\ attempt' = attempt /\ result' = "RuntimeError"

\* one pass of the attempt loop: session.get(url) and its outcome
Attempt(resp, h) ==
  /\ fpc = "attempt"
  /\ requests' = requests + 1
  /\ responses' = Append(responses, resp)
  /\ IF resp = "429" THEN On429(h)
     ELSE h = 0 /\ UNCHANGED << RETRY_AFTER_HINT, SWITCHED_TO_429, CRED_SUFFIX_USED, hints_seen >>
  /\ CASE resp = "200" ->
            /\ url_cache' = IF cacheable(url) THEN url_cache \cup { url } ELSE url_cache
            /\ fpc' = "returned" /\ result' = "data"
            /\ UNCHANGED << attempt, backoff >>
       [] resp \in { "429", "5xx" } ->
            /\ fpc' = "raised" /\ result' = "RateLimitExceeded"
            /\ UNCHANGED << url_cache, attempt, backoff >>
       [] resp = "4xx" ->
            /\ fpc' = "raised" /\ result' = "ClientResponseError"
            /\ UNCHANGED << url_cache, attempt, backoff >>
       [] resp = "2xx" ->
            /\ NextAttempt
            /\ UNCHANGED << url_cache, backoff >>
       [] resp = "timeout" ->
            /\ fpc' = "sleep"
            /\ backoff' = Append(backoff, Backoff(attempt))
            /\ UNCHANGED << url_cache, attempt, result >>
  /\ UNCHANGED << url, acq_sec, acq_hour, ncalls, entryVars, otherSweepVars, semVars >>
  /\ UNCHANGED << storeVars, clusterVars, batchVars, limiterVars, exportVars, procVars >>

\* the sleep after a timeout is over
BackoffOver ==
  /\ fpc = "sleep"
  /\ NextAttempt
  /\ UNCHANGED << url, url_cache, responses, backoff, requests, acq_sec, acq_hour, ncalls >>
  /\ UNCHANGED << entryVars, semVars >>
  /\ UNCHANGED << storeVars, clusterVars, batchVars, sweepVars, limiterVars, exportVars, procVars >>

InitFetch ==
  /\ StoreIdle
  /\ ClusterIdle
  /\ BatchIdle
  /\ SweepIdle
  /\ LimiterIdle
  /\ ExportIdle
  /\ ProcIdle
  /\ AuxIdle

NextFetch ==
  \/ \E u \in FetchUrls : FetchEnter(u)
  \/ \E resp \in FetchResponses, h \in Hints : Attempt(resp, h)
  \/ BackoffOver

SpecFetch == InitFetch /\ [][NextFetch]_vars

\* C23: every request sent, re-attempts after a timeout included, comes
\* after an acquisition of its own from both limiters (requests sent never
\* exceed the token pairs acquired), and a cache hit sends no request and
\* acquires no token.
C23_TokenPerRequest ==
  /\ requests <= acq_sec
  /\ requests <= acq_hour
  /\ result = "cached" => responses = << >>

AllTimeouts == \A k \in DOMAIN responses : responses[k] = "timeout"

\* C28: on consecutive socket timeouts at most max_retries requests are
\* made for the URL, the wait after the k-th timed-out attempt is 2^k
\* seconds, and the call fails, after the last allowed attempt and not
\* before, with a fatal error that is not the RateLimited signal.
C28_TimeoutBackoff ==
  AllTimeouts =>
    /\ Len(responses) <= max_retries
    /\ fpc \in { "sleep", "raised" } => Len(backoff) = Len(responses)
    /\ \A k \in DOMAIN backoff : backoff[k] = 2 ^ k
    /\ (fpc = "raised" /\ responses # << >>) =>
         Len(responses) = max_retries /\ result = "RuntimeError"
    /\ (Len(responses) = max_retries /\ fpc # "sleep") => fpc = "raised"

\* five requests of one call timed out and the call has failed
C28_Witness ==
  /\ fpc = "raised"
  /\ responses = << "timeout", "timeout", "timeout", "timeout", "timeout" >>
  /\ backoff = << 2, 4, 8, 16, 32 >>
  /\ result = "RuntimeError"

\* ---------------------------------------------------------------------
\* SpecTasks: the concurrent fetch tasks of process_characters. The tasks
\* of a sub-batch are created together, each waits for the semaphore,
\* fetches its identity and ends; the sweep loop awaits them in the order
\* in which they end. What the API answers to an identity is fixed per
\* fetch of that identity, so that the runs differ in nothing but the
\* order of the tasks.
\* ---------------------------------------------------------------------

\* REGION_CAP = 20 if REGION in ("us", "eu") else 100;
\* per_sec = RateLimiter(REGION_CAP, 1)
REGION_CAP == LimCapacity
\* SEM_CAP = REGION_CAP; sem = asyncio.Semaphore(SEM_CAP)
SEM_CAP == REGION_CAP

\* the identities of the working set: enough of them for two sub-batches
\* that are larger than the semaphore
TaskKeys == { << i >> : i \in 1 .. SEM_CAP + 2 }
\* BATCH_SIZE below, at and above SEM_CAP
TaskBatchSizes == { 1, SEM_CAP, SEM_CAP + 1 }

\* the answers to the successive fetches of one identity; the last one is
\* repeated
Plans ==
  { << "stored" >>, << "4xx" >>, << "429", "stored" >>, << "5xx", "nomatch" >> }
\* identity i is answered like identity i - 2
TaskAnswers ==
  { a \in [TaskKeys -> Plans] :
      \A k \in TaskKeys : k[1] > 2 => a[k] = a[<< k[1] - 2 >>] }

\* an identity is fetched once in every pass up to the one in which a fetch
\* of it is not RateLimited: in pass number "sweeps" it is fetched for the
\* (sweeps + 1)-th time
Answer(k) == answers[k][Min(sweeps + 1, Len(answers[k]))]
\* the Retry-After header of a 429
AnswerHint(resp) == IF resp = "429" THEN retry_interval + 5 ELSE 0

\* a semaphore that never blocks
SemAlwaysFree(held) == TRUE
\* asyncio.Semaphore(SEM_CAP): acquire() returns at once while fewer than
\* SEM_CAP tasks hold it, and blocks otherwise
SemFree(held) == Cardinality(held) < SEM_CAP

\* proc_one(c): "async with sem:" is entered
SemAcquire(k) ==
  /\ spc = "batch"
  /\ k \in tasks \ fetching
  /\ SemFree(fetching)
  /\ fetching' = fetching \cup { k }
  /\ UNCHANGED << storeVars, clusterVars, batchVars, sweepVars, limiterVars >>
  /\ UNCHANGED << exportVars, procVars, entryVars, fetchVars, answers >>

\* proc_one(c) fetches the identity inside the semaphore and ends
ProcOneEnds(k) ==
  /\ k \in fetching
  /\ TaskDone(k, Answer(k), AnswerHint(Answer(k)))

\* the state after the index fetch: remaining = list(characters.values()),
\* the store seeded from the published output and committed
InitTasks ==
  /\ ExportIdle
  /\ EntryIdle
  /\ FetchIdle
  /\ lua \in SweepStores
  /\ db = lua
  /\ pre = db
  /\ shards = EmptyStore
  /\ run = "idle"
  /\ op = << "init", 0 >>
  /\ committed = db
  /\ partial = {}
  /\ exit_status = -1
  /\ merged = 0
  /\ ClusterIdle
  /\ LimiterIdle
  /\ all_keys = << >>
  /\ batch_size \in TaskBatchSizes
  /\ windows = << >>
  /\ last = NoRun
  /\ again = << >>
  /\ spc = "top"
  /\ characters \in { Sorted({ k \in TaskKeys : k[1] <= n }) : n \in 1 .. SEM_CAP + 2 }
  /\ remaining = characters
  /\ tasks = {}
  /\ batch_i = 0
  /\ retry_bucket = << >>
  /\ SWITCHED_TO_429 = FALSE
  /\ CRED_SUFFIX_USED = "_1"
  /\ CRED_SUFFIX_FORCE = ""
  /\ headers_seen_suffix = "_1"
  /\ RETRY_AFTER_HINT = 0
  /\ wait_for = 0
  /\ sweeps = 0
  /\ limited = {}
  /\ fatal = "none"
  /\ pass_log = << >>
  /\ prev_log = << >>
  /\ completed = 0
  /\ settled = {}
  /\ hints_seen = {}
  /\ fetching = {}
  /\ answers \in TaskAnswers

NextTasks ==
  \/ \E o \in { "ok", "missing", "http" } : RefreshToken(o)
  \/ BeginSweep
  \/ \E k \in TaskKeys : SemAcquire(k)
  \/ \E k \in TaskKeys : ProcOneEnds(k)
  \/ NextSubBatch
  \/ Requeue
  \/ Commit

SpecTasks == InitTasks /\ [][NextTasks]_vars

\* C31: at every moment of a batch run at most SEM_CAP identities hold the
\* semaphore, SEM_CAP is the capacity of the per-second limiter, and at
\* most BATCH_SIZE fetch tasks are created and unfinished, whatever the
\* size of the working set.
C31_ConcurrencyBounds ==
  /\ Cardinality(fetching) <= SEM_CAP
  /\ SEM_CAP = LimCapacity
  /\ fetching \subseteq tasks
  /\ Cardinality(tasks) <= batch_size

\* a working set of two sub-batches, the first one created whole and
\* larger than the semaphore: SEM_CAP of its tasks fetch, one waits
C31_Witness ==
  /\ Len(characters) > batch_size
  /\ batch_size > SEM_CAP
  /\ batch_i = 0
  /\ Cardinality(tasks) = batch_size
  /\ Cardinality(fetching) = SEM_CAP

\* the answer to the first fetch of k that is not RateLimited, "none" if
\* every fetch of k is
SettledAnswer(k) ==
  LET plan == answers[k]
      I == { i \in DOMAIN plan : plan[i] \notin { "429", "5xx" } }
  IN IF I = {} THEN "none" ELSE plan[CHOOSE i \in I : \A j \in I : i <= j]

\* the identities of the working set whose own fetch stored a snapshot
Snapshotted == { k \in Range(characters) : SettledAnswer(k) = "stored" }

\* the store that the answers determine: the snapshot of every identity
\* that got one, the seeded row of every other key
FinalStore ==
  [k \in DOMAIN lua \cup Snapshotted |->
     IF k \in Snapshotted
     THEN [guid |-> GuidOf(k), ach |-> [a \in { 1 } |-> [name |-> "n", ts |-> Some(1)]]]
     ELSE lua[k]]

\* C32: for a fixed working set and fixed answers to the fetches of each
\* identity, the store at the end of the run is the same whatever the
\* order in which the concurrent tasks acquire the semaphore and end: at
\* every moment the row of a key is its seeded row or the snapshot of its
\* own successful fetch, a run that ends normally leaves the store that
\* the answers determine, and a run that crashes leaves the seeded one.
C32_StoreIsOrderIndependent ==
  /\ \A k \in DOMAIN db :
       \/ k \in DOMAIN lua /\ db[k] = lua[k]
       \/ k \in Snapshotted /\ db[k] = FinalStore[k]
  /\ spc = "done" => db = FinalStore /\ committed = FinalStore
  /\ spc = "crashed" => db = lua

\* a run has ended in which two tasks of one sub-batch stored a snapshot
\* and the task created first was the last one to end
C32_Witness ==
  /\ spc = "done"
  /\ lua = EmptyStore
  /\ batch_size >= 2
  /\ sweeps = 0
  /\ { << 1 >>, << 2 >> } \subseteq DOMAIN db
  /\ << 2 >> \in DOMAIN pre
  /\ << 1 >> \notin DOMAIN pre

\* SpecTasksFair: the event loop runs every task that is ready and every
\* sleep ends, so each step of the sweep loop and of its tasks that stays
\* possible is taken
SpecTasksFair ==
  /\ SpecTasks
  /\ WF_vars(\E o \in { "ok", "missing", "http" } : RefreshToken(o))
  /\ WF_vars(BeginSweep)
  /\ WF_vars(\E k \in TaskKeys : SemAcquire(k))
  /\ WF_vars(\E k \in TaskKeys : ProcOneEnds(k))
  /\ WF_vars(NextSubBatch)
  /\ WF_vars(Requeue)
  /\ WF_vars(Commit)

\* every identity of the working set has received, on some sweep, an
\* outcome other than RateLimited
AllSettled == settled = Range(characters)

\* the sweep loop has ended with an empty retry bucket, the store is
\* committed, the partial output and the shard of the batch are written
SweepLoopEnded ==
  /\ spc = "done"
  /\ retry_bucket = << >>
  /\ committed = db
  /\ partial = DOMAIN db \cap Range(characters)
  /\ 1 \in DOMAIN shards /\ shards[1] = db
  /\ exit_status = 0

\* C33: termination. If every identity of the working set receives, on
\* some sweep, an outcome other than RateLimited, then the sweep loop
\* eventually ends with an empty retry bucket, the store is committed and
\* the partial output and the DB shard of the batch are written.
C33_Termination == AllSettled ~> SweepLoopEnded

\* the loop has ended after a retry: identity 1 was RateLimited on the
\* first sweep and stored on the second, identity 2 was dropped on the first
C33_Witness ==
  /\ AllSettled
  /\ SweepLoopEnded
  /\ sweeps = 1
  /\ answers[<< 1 >>] = << "429", "stored" >>
  /\ answers[<< 2 >>] = << "4xx" >>
  /\ Len(characters) >= 2
  /\ << 1 >> \in DOMAIN db

====
